---- MODULE Spec2Model ----
(***************************************************************************)
(* Model of the Markdown attachment renamer and link fixer                 *)
(* (src/md_link_fixer/core.py, and the single-file variant                 *)
(* src/md_link_fixer.py).                                                  *)
(*                                                                         *)
(* Strings are sequences of one-character strings, so that prefix tests,   *)
(* lower-casing, splitting on "/" and the os.path functions are computed   *)
(* the way the Python code computes them (POSIX flavour, os.sep = "/").    *)
(* A document's content is the sequence of reference strings that the two  *)
(* regular expressions of replace_in_markdown extract from it.             *)
(***************************************************************************)
EXTENDS Integers, Sequences, FiniteSets, TLC

\* ------------------------------------------------------------------------
\* Python str helpers
\* ------------------------------------------------------------------------

None == <<>>

UpperLetters == <<"A","B","C","D","E","F","G","H","I","J","K","L","M",
                  "N","O","P","Q","R","S","T","U","V","W","X","Y","Z">>

LowerLetters == <<"a","b","c","d","e","f","g","h","i","j","k","l","m",
                  "n","o","p","q","r","s","t","u","v","w","x","y","z">>

IsUpper(c) == \E i \in 1..26 : UpperLetters[i] = c

IsLetter(c) == \E i \in 1..26 : UpperLetters[i] = c \/ LowerLetters[i] = c

LowerChar(c) == IF IsUpper(c)
                THEN LowerLetters[CHOOSE i \in 1..26 : UpperLetters[i] = c]
                ELSE c

\* str.lower()
Lower(s) == [i \in 1..Len(s) |-> LowerChar(s[i])]

\* str.startswith(p)
StartsWith(s, p) == Len(s) >= Len(p) /\ SubSeq(s, 1, Len(p)) = p

\* str.endswith(p)
EndsWith(s, p) == Len(s) >= Len(p) /\ SubSeq(s, Len(s) - Len(p) + 1, Len(s)) = p

\* needle in hay
Contains(hay, needle) ==
    \E i \in 1..(Len(hay) + 1) :
        /\ i + Len(needle) - 1 <= Len(hay)
        /\ SubSeq(hay, i, i + Len(needle) - 1) = needle

\* str.strip()
Strip(s) ==
    LET keep == {i \in 1..Len(s) : s[i] \notin {" ", "\t", "\n"}}
    IN  IF keep = {} THEN <<>>
        ELSE LET lo == CHOOSE i \in keep : \A j \in keep : i <= j
                 hi == CHOOSE i \in keep : \A j \in keep : j <= i
             IN  SubSeq(s, lo, hi)

\* str.isdigit()
IsDigitStr(s) ==
    /\ Len(s) > 0
    /\ \A i \in 1..Len(s) : s[i] \in {"0","1","2","3","4","5","6","7","8","9"}

\* str.rfind(c): the last position of c in s, 0 when absent
RFind(s, c) ==
    LET at == {i \in 1..Len(s) : s[i] = c}
    IN  IF at = {} THEN 0 ELSE CHOOSE i \in at : \A j \in at : j <= i

\* str.split("/")
RECURSIVE SplitSlash(_)
SplitSlash(s) ==
    LET at == {i \in 1..Len(s) : s[i] = "/"}
    IN  IF at = {} THEN <<s>>
        ELSE LET k == CHOOSE i \in at : \A j \in at : i <= j
             IN  <<SubSeq(s, 1, k - 1)>> \o SplitSlash(SubSeq(s, k + 1, Len(s)))

\* "/".join(parts)
RECURSIVE JoinSlash(_)
JoinSlash(parts) ==
    IF Len(parts) = 0 THEN <<>>
    ELSE IF Len(parts) = 1 THEN parts[1]
    ELSE parts[1] \o <<"/">> \o JoinSlash(Tail(parts))

\* the characters of the model, in code-point order
CharOrder == <<"\t", "\n", " ", "#", ".", "/",
               "0","1","2","3","4","5","6","7","8","9", ":", "@",
               "A","B","C","D","E","F","G","H","I","J","K","L","M",
               "N","O","P","Q","R","S","T","U","V","W","X","Y","Z",
               "\\", "_",
               "a","b","c","d","e","f","g","h","i","j","k","l","m",
               "n","o","p","q","r","s","t","u","v","w","x","y","z">>

Ord(c) == CHOOSE i \in 1..Len(CharOrder) : CharOrder[i] = c

\* s < t in the order of Python's str comparison
RECURSIVE StrLess(_, _)
StrLess(s, t) ==
    IF Len(t) = 0 THEN FALSE
    ELSE IF Len(s) = 0 THEN TRUE
    ELSE IF Head(s) = Head(t) THEN StrLess(Tail(s), Tail(t))
    ELSE Ord(Head(s)) < Ord(Head(t))

\* sorted(S) for a set of strings
RECURSIVE Sorted(_)
Sorted(S) ==
    IF S = {} THEN <<>>
    ELSE LET m == CHOOSE x \in S : \A y \in S \ {x} : StrLess(x, y)
         IN  <<m>> \o Sorted(S \ {m})

\* ------------------------------------------------------------------------
\* os.path (posixpath)
\* ------------------------------------------------------------------------

\* os.path.basename
Basename(p) == SubSeq(p, RFind(p, "/") + 1, Len(p))

\* os.path.dirname
RECURSIVE RStripSlash(_)
RStripSlash(s) ==
    IF Len(s) > 0 /\ s[Len(s)] = "/" THEN RStripSlash(SubSeq(s, 1, Len(s) - 1)) ELSE s

Dirname(p) ==
    LET head == SubSeq(p, 1, RFind(p, "/"))
    IN  IF head # <<>> /\ \E i \in 1..Len(head) : head[i] # "/"
        THEN RStripSlash(head) ELSE head

\* os.path.splitext: <<root, ext>>; leading dots of the file name are no extension
SplitExt(p) ==
    LET sepIndex == RFind(p, "/")
        dotIndex == RFind(p, ".")
    IN  IF dotIndex > sepIndex
           /\ \E k \in (sepIndex + 1)..(dotIndex - 1) : p[k] # "."
        THEN <<SubSeq(p, 1, dotIndex - 1), SubSeq(p, dotIndex, Len(p))>>
        ELSE <<p, <<>> >>

\* os.path.join(a, b)
PathJoin(a, b) ==
    IF StartsWith(b, <<"/">>) THEN b
    ELSE IF a = <<>> \/ EndsWith(a, <<"/">>) THEN a \o b
    ELSE a \o <<"/">> \o b

\* the component loop of os.path.normpath
RECURSIVE NormComps(_, _, _)
NormComps(comps, acc, rooted) ==
    IF Len(comps) = 0 THEN acc
    ELSE LET c == Head(comps)
             rest == Tail(comps)
         IN  IF c = <<>> \/ c = <<".">> THEN NormComps(rest, acc, rooted)
             ELSE IF c # <<".", ".">>
                     \/ (~rooted /\ Len(acc) = 0)
                     \/ (Len(acc) > 0 /\ acc[Len(acc)] = <<".", ".">>)
                  THEN NormComps(rest, Append(acc, c), rooted)
             ELSE IF Len(acc) > 0
                  THEN NormComps(rest, SubSeq(acc, 1, Len(acc) - 1), rooted)
             ELSE NormComps(rest, acc, rooted)

\* os.path.normpath
NormPath(p) ==
    IF p = <<>> THEN <<".">>
    ELSE LET rooted == StartsWith(p, <<"/">>)
             slashes == IF rooted /\ StartsWith(p, <<"/", "/">>)
                           /\ ~StartsWith(p, <<"/", "/", "/">>)
                        THEN <<"/", "/">>
                        ELSE IF rooted THEN <<"/">> ELSE <<>>
             body == JoinSlash(NormComps(SplitSlash(p), <<>>, rooted))
             out == slashes \o body
         IN  IF out = <<>> THEN <<".">> ELSE out

\* the non-empty components of an absolute path
PathList(p) == SelectSeq(SplitSlash(p), LAMBDA c : c # <<>>)

\* length of the common prefix of two component lists
RECURSIVE CommonLen(_, _)
CommonLen(a, b) ==
    IF Len(a) = 0 \/ Len(b) = 0 \/ Head(a) # Head(b) THEN 0
    ELSE 1 + CommonLen(Tail(a), Tail(b))

\* os.path.relpath(path, start), both absolute
RelPath(path, start) ==
    LET start_list == PathList(NormPath(start))
        path_list == PathList(NormPath(path))
        i == CommonLen(start_list, path_list)
        ups == [k \in 1..(Len(start_list) - i) |-> <<".", ".">>]
        rel_list == ups \o SubSeq(path_list, i + 1, Len(path_list))
    IN  IF Len(rel_list) = 0 THEN <<".">> ELSE JoinSlash(rel_list)

\* ------------------------------------------------------------------------
\* Program constants
\* ------------------------------------------------------------------------

\* the absolute root directory the run works on
RootDir == <<"/", "r">>

EXCLUDE_DIR_NAMES == { <<"_","_","p","y","c","a","c","h","e","_","_">>,
                       <<"_","M","E","I","P","A","S","S">>,
                       <<"_","M","E","I">>,
                       <<"_","i","n","t","e","r","n","a","l">> }

MARKDOWN_EXTS == { <<".","m","d">>,
                   <<".","m","a","r","k","d","o","w","n">>,
                   <<".","m","d","o","w","n">>,
                   <<".","m","k","d">>,
                   <<".","m","k","d","o","w","n">> }

T_image == <<"i","m","a","g","e">>

T_video == <<"v","i","d","e","o">>

T_audio == <<"a","u","d","i","o">>

T_office == <<"o","f","f","i","c","e">>

T_all == <<"a","l","l">>

T_other == <<"o","t","h","e","r">>

RENAMING_CATEGORIES ==
    [t \in {T_image, T_video, T_audio, T_office} |->
        IF t = T_image THEN { <<".","p","n","g">>, <<".","j","p","g">>,
                              <<".","j","p","e","g">>, <<".","g","i","f">>,
                              <<".","b","m","p">>, <<".","w","e","b","p">>,
                              <<".","s","v","g">>, <<".","t","i","f">>,
                              <<".","t","i","f","f">>, <<".","h","e","i","c">> }
        ELSE IF t = T_video THEN { <<".","m","p","4">>, <<".","m","o","v">>,
                              <<".","m","k","v">>, <<".","a","v","i">>, <<".","w","m","v">>,
                              <<".","f","l","v">>, <<".","w","e","b","m">> }
        ELSE IF t = T_audio THEN { <<".","m","p","3">>, <<".","w","a","v">>,
                              <<".","a","a","c">>, <<".","f","l","a","c">>,
                              <<".","m","4","a">>, <<".","o","g","g">> }
        ELSE { <<".","p","d","f">>, <<".","d","o","c">>, <<".","d","o","c","x">>,
               <<".","p","p","t">>, <<".","p","p","t","x">>, <<".","x","l","s">>,
               <<".","x","l","s","x">>, <<".","c","s","v">>, <<".","w","p","s">> }]

DEFAULT_RENAME_CATEGORY == T_image

CATEGORY_ORDER == <<T_image, T_video, T_audio, T_office>>

MAPPING_FILENAME == <<"a","t","t","a","c","h","m","e","n","t","_","r","e","n","a","m","e","_","m","a","p",".","j","s","o","n">>

INDEX_FILENAME == <<"f","i","l","e","_","p","a","t","h","_","i","n","d","e","x",".","j","s","o","n">>

\* ------------------------------------------------------------------------
\* State
\* ------------------------------------------------------------------------

VARIABLES
    pc,            \* position of the run / of the resolver call
    variant,       \* "package": core.py; "script": the single-file md_link_fixer.py
    categories,    \* run_pipeline's rename_categories
    data_dir,      \* run_pipeline's data_dir, None when not given
    disk,          \* the files below RootDir, as root-relative paths
    data_files,    \* the file names present in the data directory
    content,       \* document path -> the references its text holds
    clock,         \* the millisecond tick datetime.now() last returned
    attachments,   \* rename_attachments: the candidates walk_attachments found
    ai,            \* rename_attachments: position in the candidate list
    new_name,      \* rename_attachments: the name generated for the candidate
    used,          \* rename_attachments: names issued in this run
    mapping,       \* rename mapping: old root-relative path -> new one
    renamed,       \* rename_attachments: number of successful renames
    details,       \* rename_attachments: the detail records
    index_before,  \* index built before renaming (package only)
    duplicates,    \* result of detect_duplicate_filenames
    index_after,   \* index used for resolution: [markdown, attachments]
    mi,            \* process_markdown_files: position in the document list
    total_files,
    total_replacements,
    changed_files,
    invalid_references,
    outcome,       \* what run_pipeline has returned or raised so far
    disk0,         \* history: the tree the run started on
    content0,      \* history: the documents the run started on
    issued,        \* history: the names generate_unique_filename returned, in order
    overwritten,   \* history: the destinations that existed when os.rename ran
    rename_failed, \* history: the candidates whose os.rename raised
    read_failed,   \* history: the documents whose read raised
    calls,         \* history: every transform_path call of the rewrite pass
    h_url,         \* resolver call: the raw reference
    h_md,          \* resolver call: root-relative path of the document
    h_out,         \* resolver call: the returned (url, resolved), or None
    frontend,      \* the host of the run: "cli", "tkinter" or "qt"
    running,       \* tkinter: running["flag"]
    add_btn,       \* Qt: add_btn and settings_btn are enabled
    run_btn,       \* Qt: the buttons of the project cards are enabled
    dialog,        \* the modal dialog the main thread is waiting in, or "none"
    threads,       \* the worker threads started, each by its position
    events,        \* callbacks and signals queued for the main thread
    ignored        \* history: run clicks that started nothing

run_vars == <<variant, categories, data_dir, data_files, content, clock,
              attachments, ai, new_name, used, renamed, details, index_before,
              duplicates, mi, total_files, total_replacements, changed_files,
              invalid_references, outcome, disk0, content0, issued, overwritten,
              rename_failed, read_failed, calls>>

call_vars == <<h_url, h_md, h_out>>

host_vars == <<frontend, running, add_btn, run_btn, dialog, threads, events, ignored>>

vars == <<pc, disk, mapping, index_after, run_vars, call_vars, host_vars>>

\* the host after construction: no run requested yet
HostIdle ==
    /\ running = FALSE
    /\ add_btn = TRUE
    /\ run_btn = TRUE
    /\ dialog = "none"
    /\ threads = <<>>
    /\ events = <<>>
    /\ ignored = 0

\* ------------------------------------------------------------------------
\* Filesystem
\* ------------------------------------------------------------------------

AbsOf(rel) == PathJoin(RootDir, rel)

\* os.path.exists on a normalised absolute path: a file of the tree, one of
\* the directories that contain one, the root, or "/"
Exists(p) ==
    \/ p = RootDir
    \/ p = <<"/">>
    \/ \E f \in disk : AbsOf(f) = p \/ StartsWith(AbsOf(f), p \o <<"/">>)

is_markdown_file(filename) == Lower(SplitExt(filename)[2]) \in MARKDOWN_EXTS

is_normalized_filename(filename) ==
    LET name == SplitExt(filename)[1]
    IN  IsDigitStr(name) /\ Len(name) = 19

\* ------------------------------------------------------------------------
\* Path resolution
\* ------------------------------------------------------------------------

\* variant: in-page anchors and mailto: links are not recognised
is_external_without_anchor(path) ==
    LET p == Lower(path)
    IN  \/ StartsWith(p, <<"h","t","t","p",":","/","/">>)
        \/ StartsWith(p, <<"h","t","t","p","s",":","/","/">>)
        \/ StartsWith(p, <<"f","t","p",":","/","/">>)
        \/ StartsWith(p, <<"t","e","l",":">>)
        \/ StartsWith(p, <<"d","a","t","a",":">>)
        \/ StartsWith(p, <<"/","/">>)
        \/ StartsWith(path, <<"/">>)
        \/ StartsWith(path, <<"\\">>)
        \/ (Len(path) >= 3 /\ IsLetter(path[1]) /\ path[2] = ":"
              /\ path[3] \in {"\\", "/"})

is_external_or_absolute(path) ==
    LET p == Lower(path)
    IN  \/ StartsWith(p, <<"h","t","t","p",":","/","/">>)
        \/ StartsWith(p, <<"h","t","t","p","s",":","/","/">>)
        \/ StartsWith(p, <<"f","t","p",":","/","/">>)
        \/ StartsWith(p, <<"m","a","i","l","t","o",":">>)
        \/ StartsWith(p, <<"t","e","l",":">>)
        \/ StartsWith(p, <<"d","a","t","a",":">>)
        \/ StartsWith(p, <<"/","/">>)
        \/ StartsWith(p, <<"#">>)
        \/ StartsWith(path, <<"/">>)
        \/ StartsWith(path, <<"\\">>)
        \/ (Len(path) >= 3 /\ IsLetter(path[1]) /\ path[2] = ":"
              /\ path[3] \in {"\\", "/"})

\* variant: the first match wins when several files carry the name
find_attachment_first_match(filename, attachment_list) ==
    LET candidates == SelectSeq(attachment_list, LAMBDA p : Basename(p) = filename)
    IN  IF Len(candidates) >= 1 THEN candidates[1] ELSE None

\* variant: the name is looked for as a substring, letter case ignored
find_attachment_fuzzy(filename, attachment_list) ==
    LET candidates == SelectSeq(attachment_list,
            LAMBDA p : Contains(Lower(Basename(p)), Lower(filename)))
    IN  IF Len(candidates) = 1 THEN candidates[1] ELSE None

\* variant: of several attachments with the basename the last one is taken
find_attachment_last_match(filename, attachment_list) ==
    LET candidates == SelectSeq(attachment_list, LAMBDA p : Basename(p) = filename)
    IN  IF Len(candidates) >= 1 THEN candidates[Len(candidates)] ELSE None

find_attachment_by_filename(filename, attachment_list) ==
    LET candidates == SelectSeq(attachment_list, LAMBDA p : Basename(p) = filename)
    IN  IF Len(candidates) = 1 THEN candidates[1] ELSE None

find_markdown_by_filename(filename, markdown_paths) ==
    LET all_mds == SelectSeq(markdown_paths,
                             LAMBDA p : EndsWith(Lower(p), <<".","m","d">>))
        exact == SelectSeq(all_mds, LAMBDA p : Basename(p) = filename)
        lower_name == Lower(filename)
        fuzzy == SelectSeq(all_mds,
                           LAMBDA p : Contains(Lower(Basename(p)), lower_name))
    IN  IF Len(exact) = 1 THEN exact[1]
        ELSE IF Len(exact) > 1 THEN None
        ELSE IF Len(fuzzy) = 1 THEN fuzzy[1]
        ELSE None

\* variant: the mapped target is written as a path from the root
mapping_repair_from_root(rel_from_root, md_dir, root_dir, map) ==
    IF rel_from_root # None /\ rel_from_root \in DOMAIN map
    THEN LET new_abs == PathJoin(root_dir, map[rel_from_root])
         IN  IF Exists(new_abs) THEN RelPath(new_abs, root_dir) ELSE None
    ELSE None

\* transform_path, the mapping step: the rewritten reference, or None
mapping_repair(rel_from_root, md_dir, root_dir, map) ==
    IF rel_from_root # None /\ rel_from_root \in DOMAIN map
    THEN LET new_abs == PathJoin(root_dir, map[rel_from_root])
         IN  IF Exists(new_abs) THEN RelPath(new_abs, md_dir) ELSE None
    ELSE None

\* transform_path, the filename search: the rewritten reference, or None
filename_repair(url, md_dir, root_dir, markdown_paths, attachment_paths) ==
    LET filename == Basename(url)
        found_rel == IF EndsWith(Lower(filename), <<".","m","d">>)
                     THEN find_markdown_by_filename(filename, markdown_paths)
                     ELSE find_attachment_by_filename(filename, attachment_paths)
    IN  IF found_rel # None /\ Exists(PathJoin(root_dir, found_rel))
        THEN RelPath(PathJoin(root_dir, found_rel), md_dir)
        ELSE None

\* variant: the filename search is consulted before the mapping
transform_path_search_first(raw, md_dir, root_dir, map, markdown_paths, attachment_paths) ==
    LET url == Strip(raw)
    IN  IF url = <<>> \/ is_external_or_absolute(url)
        THEN [url |-> url, resolved |-> TRUE]
        ELSE
          LET abs_candidate == NormPath(PathJoin(md_dir, url))
              rel_from_root == RelPath(abs_candidate, root_dir)
              mapped == mapping_repair(rel_from_root, md_dir, root_dir, map)
              found == filename_repair(url, md_dir, root_dir,
                                       markdown_paths, attachment_paths)
          IN  IF found # None THEN [url |-> found, resolved |-> TRUE]
              ELSE IF mapped # None THEN [url |-> mapped, resolved |-> TRUE]
              ELSE IF Exists(abs_candidate) THEN [url |-> url, resolved |-> TRUE]
              ELSE [url |-> url, resolved |-> FALSE]

\* variant: the last existence test joins the reference to the root
transform_path_exists_from_root(raw, md_dir, root_dir, map, markdown_paths, attachment_paths) ==
    LET url == Strip(raw)
    IN  IF url = <<>> \/ is_external_or_absolute(url)
        THEN [url |-> url, resolved |-> TRUE]
        ELSE
          LET abs_candidate == NormPath(PathJoin(md_dir, url))
              rel_from_root == RelPath(abs_candidate, root_dir)
              mapped == mapping_repair(rel_from_root, md_dir, root_dir, map)
              found == filename_repair(url, md_dir, root_dir,
                                       markdown_paths, attachment_paths)
          IN  IF mapped # None THEN [url |-> mapped, resolved |-> TRUE]
              ELSE IF found # None THEN [url |-> found, resolved |-> TRUE]
              ELSE IF Exists(NormPath(PathJoin(root_dir, url)))
                   THEN [url |-> url, resolved |-> TRUE]
              ELSE [url |-> url, resolved |-> FALSE]

\* variant: an unresolved reference is returned as received, untrimmed
transform_path_raw_when_broken(raw, md_dir, root_dir, map, markdown_paths, attachment_paths) ==
    LET url == Strip(raw)
    IN  IF url = <<>> \/ is_external_or_absolute(url)
        THEN [url |-> url, resolved |-> TRUE]
        ELSE
          LET abs_candidate == NormPath(PathJoin(md_dir, url))
              rel_from_root == RelPath(abs_candidate, root_dir)
              mapped == mapping_repair(rel_from_root, md_dir, root_dir, map)
              found == filename_repair(url, md_dir, root_dir,
                                       markdown_paths, attachment_paths)
          IN  IF mapped # None THEN [url |-> mapped, resolved |-> TRUE]
              ELSE IF found # None THEN [url |-> found, resolved |-> TRUE]
              ELSE IF Exists(abs_candidate) THEN [url |-> url, resolved |-> TRUE]
              ELSE [url |-> raw, resolved |-> FALSE]

transform_path(raw, md_dir, root_dir, map, markdown_paths, attachment_paths) ==
    LET url == Strip(raw)
    IN  IF url = <<>> \/ is_external_or_absolute(url)
        THEN [url |-> url, resolved |-> TRUE]
        ELSE
          LET abs_candidate == NormPath(PathJoin(md_dir, url))
              rel_from_root == RelPath(abs_candidate, root_dir)
              mapped == mapping_repair(rel_from_root, md_dir, root_dir, map)
              found == filename_repair(url, md_dir, root_dir,
                                       markdown_paths, attachment_paths)
          IN  IF mapped # None THEN [url |-> mapped, resolved |-> TRUE]
              ELSE IF found # None THEN [url |-> found, resolved |-> TRUE]
              ELSE IF Exists(abs_candidate) THEN [url |-> url, resolved |-> TRUE]
              ELSE [url |-> url, resolved |-> FALSE]

\* ------------------------------------------------------------------------
\* Walking the tree and indexing it
\* ------------------------------------------------------------------------

\* variant: only the listed names are excluded
DirKept_listed_names_only(d) == d \notin EXCLUDE_DIR_NAMES

\* the directory filter of both walks
DirKept(d) ==
    /\ ~StartsWith(d, <<".">>)
    /\ d \notin EXCLUDE_DIR_NAMES
    /\ ~EndsWith(d, <<".","a","p","p">>)

\* os.walk(root_dir) top-down over the file set `files` with the directory
\* filter applied: the root-relative paths of the files visited, the files of
\* a directory before its sub-directories; a directory's listing is taken in
\* name order. `prefix` is the directory walked, "" or ending in "/".
RECURSIVE WalkFrom(_, _)
RECURSIVE WalkDirs(_, _, _)
WalkFrom(files, prefix) ==
    LET under == {f \in files : StartsWith(f, prefix) /\ Len(f) > Len(prefix)}
        rest(f) == SubSeq(f, Len(prefix) + 1, Len(f))
        here == {f \in under : RFind(rest(f), "/") = 0}
        subs == {SplitSlash(rest(f))[1] : f \in under \ here}
        kept == {d \in subs : DirKept(d)}
    IN  Sorted(here) \o WalkDirs(files, prefix, Sorted(kept))

WalkDirs(files, prefix, dirs) ==
    IF Len(dirs) = 0 THEN <<>>
    ELSE WalkFrom(files, prefix \o Head(dirs) \o <<"/">>)
            \o WalkDirs(files, prefix, Tail(dirs))

\* build_file_index over a given file set
IndexOf(files) ==
    LET walked == WalkFrom(files, <<>>)
    IN  [markdown |-> SelectSeq(walked, LAMBDA p : is_markdown_file(Basename(p))),
         attachments |-> SelectSeq(walked, LAMBDA p : ~is_markdown_file(Basename(p)))]

build_file_index(root_dir) == IndexOf(disk)

\* ------------------------------------------------------------------------
\* Canonical names
\* ------------------------------------------------------------------------

DigitChar(d) == <<"0","1","2","3","4","5","6","7","8","9">>[d + 1]

\* f"{n:02d}" and f"{n:03d}"
Pad2(n) == <<DigitChar((n \div 10) % 10), DigitChar(n % 10)>>

Pad3(n) == <<DigitChar((n \div 100) % 10)>> \o Pad2(n)

\* now.strftime("%Y%m%d%H%M%S") of the second in which every modelled
\* millisecond tick lies
ClockSecond == <<"2","0","2","4","0","1","0","1","0","0","0","0","0","0">>

\* variant: the timestamp has the resolution of a second, every tick of the
\* modelled second gives the same base
candidate_name_per_second(ms, rand, ext) == ClockSecond \o Pad3(0) \o Pad2(rand) \o ext

\* the candidate name built by one iteration of generate_unique_filename at
\* millisecond tick `ms` with random draw `rand`
candidate_name(ms, rand, ext) == ClockSecond \o Pad3(ms) \o Pad2(rand) \o ext

\* ------------------------------------------------------------------------
\* Categories
\* ------------------------------------------------------------------------

Range(seq) == {seq[i] : i \in 1..Len(seq)}

normalize_categories(selected_types) ==
    IF Len(selected_types) = 0 THEN <<DEFAULT_RENAME_CATEGORY>>
    ELSE LET nonempty == SelectSeq(selected_types, LAMBDA t : t # <<>>)
             lowered == [i \in 1..Len(nonempty) |-> Lower(nonempty[i])]
             filtered == SelectSeq(lowered,
                            LAMBDA t : t \in DOMAIN RENAMING_CATEGORIES \/ t = T_all)
             ordered == SelectSeq(CATEGORY_ORDER, LAMBDA t : t \in Range(filtered))
         IN  IF T_all \in Range(filtered) THEN <<T_all>>
             ELSE IF Len(ordered) > 0 THEN ordered
             ELSE <<DEFAULT_RENAME_CATEGORY>>

\* resolve_allowed_extensions: raises = TRUE stands for the ValueError
resolve_allowed_extensions(selected) ==
    LET normalized == normalize_categories(selected)
        unknown == SelectSeq(selected,
                      LAMBDA c : /\ c # <<>>
                                 /\ Lower(c) \notin DOMAIN RENAMING_CATEGORIES
                                 /\ Lower(c) \notin {T_all, T_other})
    IN  [raises |-> Len(unknown) > 0,
         allowed |-> UNION {RENAMING_CATEGORIES[c] :
                               c \in Range(normalized) \cap DOMAIN RENAMING_CATEGORIES},
         allow_all |-> T_all \in Range(normalized),
         normalized |-> normalized]

\* ------------------------------------------------------------------------
\* Rename candidates
\* ------------------------------------------------------------------------

\* variant: files ending in .exe are candidates too
walk_attachments_with_exe(root_dir, self_exec, allowed_exts, allow_all) ==
    SelectSeq(WalkFrom(disk, <<>>),
        LAMBDA rel :
            LET filename == Basename(rel)
                ext == Lower(SplitExt(filename)[2])
            IN  /\ PathJoin(root_dir, rel) # self_exec
                /\ ~is_markdown_file(filename)
                /\ ~is_normalized_filename(filename)
                /\ (allow_all \/ ext \in allowed_exts))

walk_attachments(root_dir, self_exec, allowed_exts, allow_all) ==
    SelectSeq(WalkFrom(disk, <<>>),
        LAMBDA rel :
            LET filename == Basename(rel)
                ext == Lower(SplitExt(filename)[2])
            IN  /\ PathJoin(root_dir, rel) # self_exec
                /\ ~EndsWith(Lower(filename), <<".","e","x","e">>)
                /\ ~is_markdown_file(filename)
                /\ ~is_normalized_filename(filename)
                /\ (allow_all \/ ext \in allowed_exts))

\* ------------------------------------------------------------------------
\* Duplicate basenames
\* ------------------------------------------------------------------------

detect_duplicate_filenames(index) ==
    LET all == index.markdown \o index.attachments
        bucket(name) == SelectSeq(all, LAMBDA rel : Basename(rel) = name)
        names == {Basename(all[i]) : i \in 1..Len(all)}
        dups == {n \in names : Len(bucket(n)) > 1}
    IN  [n \in dups |-> bucket(n)]

\* detect_duplicate_filenames, third result: the (name, path) pairs of the
\* groups, names sorted and the paths of a name sorted
RECURSIVE flatten_groups(_, _)
flatten_groups(groups, names) ==
    IF Len(names) = 0 THEN <<>>
    ELSE LET name == Head(names)
             paths == Sorted(Range(groups[name]))
         IN  [k \in 1..Len(paths) |-> [name |-> name, path |-> paths[k]]]
                \o flatten_groups(groups, Tail(names))

duplicate_list(index) ==
    LET groups == detect_duplicate_filenames(index)
    IN  flatten_groups(groups, Sorted(DOMAIN groups))

\* ------------------------------------------------------------------------
\* Rewriting one document
\* ------------------------------------------------------------------------

\* replace_in_markdown on the references `text` holds, in the order the
\* substitution callbacks meet them; `results` keeps what each callback's
\* transform_path call returned. One callback: the counter and the broken
\* list it updates, the string it splices back.
RECURSIVE substitute(_, _, _, _)
substitute(text, results, i, acc) ==
    IF i > Len(text) THEN acc
    ELSE LET url == text[i]
             new_url == results[i].url
             resolved == results[i].resolved
         IN  substitute(text, results, i + 1,
                 [new_content |-> Append(acc.new_content, new_url),
                  count |-> IF new_url # url THEN acc.count + 1 ELSE acc.count,
                  broken_links |-> IF ~resolved
                                   THEN Append(acc.broken_links, url)
                                   ELSE acc.broken_links,
                  results |-> results])

\* variant: the counter is incremented for every resolved reference
RECURSIVE substitute_counting_resolved(_, _, _, _)
substitute_counting_resolved(text, results, i, acc) ==
    IF i > Len(text) THEN acc
    ELSE LET url == text[i]
             new_url == results[i].url
             resolved == results[i].resolved
         IN  substitute_counting_resolved(text, results, i + 1,
                 [new_content |-> Append(acc.new_content, new_url),
                  count |-> IF resolved THEN acc.count + 1 ELSE acc.count,
                  broken_links |-> IF ~resolved
                                   THEN Append(acc.broken_links, url)
                                   ELSE acc.broken_links,
                  results |-> results])

\* variant of replace_results built on it
replace_results_counting_resolved(text, results) ==
    substitute_counting_resolved(text, results, 1,
        [new_content |-> <<>>, count |-> 0, broken_links |-> <<>>,
         results |-> results])

replace_results(text, results) ==
    substitute(text, results, 1,
        [new_content |-> <<>>, count |-> 0, broken_links |-> <<>>,
         results |-> results])

replace_in_markdown(text, md_abs_path, root_dir, map, markdown_paths, attachment_paths) ==
    replace_results(text,
        [i \in 1..Len(text) |->
            transform_path(text[i], Dirname(md_abs_path), root_dir, map,
                           markdown_paths, attachment_paths)])

\* ------------------------------------------------------------------------
\* Bounds and input universes
\* ------------------------------------------------------------------------

\* resolver calls: most files on disk, most indexed paths, most mapping entries
MaxDisk == 2

MaxIndexed == 2

MaxMap == 1

PNG == <<".","p","n","g">>

\* the files of the trees the checks draw from, by root-relative path
F ==
    [ a_p |-> <<"a","/","p">> \o PNG,
      b_p |-> <<"b","/","p">> \o PNG,
      a_canon |-> <<"a","/">> \o candidate_name(0, 0, PNG),
      b_r |-> <<"b","/","r",".","m","d">>,
      b_fr |-> <<"b","/","f","r",".","m","d">>,
      p |-> <<"p">> \o PNG,
      c_r |-> <<"c","/","r",".","m","d">>,
      b_R |-> <<"b","/","R",".","m","d">>,
      c_mdown |-> <<"c","/","r",".","m","d","o","w","n">>,
      b_q |-> <<"b","/","q">> \o PNG,
      b_n |-> <<"b","/","n",".","m","d">>,
      a_n |-> <<"a","/","n",".","m","d">>,
      tool |-> <<"t","o","o","l">>,
      a_exe |-> <<"a","/","t",".","e","x","e">>,
      a_pdf |-> <<"a","/","q",".","p","d","f">>,
      a_PNG |-> <<"a","/","P",".","P","N","G">>,
      a_dot |-> <<"a","/",".","p">> \o PNG,
      git_p |-> <<".","g","i","t","/","p">> \o PNG,
      git_n |-> <<".","g","i","t","/","n",".","m","d">>,
      cache_p |-> <<"_","_","p","y","c","a","c","h","e","_","_","/","p">> \o PNG,
      app_p |-> <<"a","/","x",".","a","p","p","/","p">> \o PNG ]

\* the files a resolver call may find on disk or in the index
HFiles == {F.a_p, F.b_p, F.a_canon, F.b_r, F.b_fr}

U_https == <<"h","t","t","p","s",":","/","/","x">>

\* references that transform_path must treat as external or absolute
ExternalUrls == {
    U_https,
    <<"H","T","T","P",":","/","/","X">>,
    <<"f","t","p",":","/","/","x">>,
    <<"m","a","i","l","t","o",":","a","@","b",".","c","o","m">>,
    <<"t","e","l",":","1">>,
    <<"d","a","t","a",":","x">>,
    <<"/","/","x">>,
    <<"#","a","n","c","h","o","r">>,
    <<"/","a","b","s","/","p","a","t","h">>,
    <<"C",":","\\","a","b","s","\\","p","a","t","h">>,
    <<>> }

RelativeUrls == {
    <<"p">> \o PNG,
    <<".","/","p">> \o PNG,
    <<".",".","/","b","/","p">> \o PNG,
    F.a_p,
    <<"x","/","p">> \o PNG,
    <<"r",".","m","d">>,
    F.b_r,
    <<"P">> \o PNG,
    <<" ","p">> \o PNG }

HUrls == ExternalUrls \cup { U_https \o <<" ">>, <<" ">> } \cup RelativeUrls

Bounded(S, n) == {x \in SUBSET S : Cardinality(x) <= n}

\* the mappings with at most MaxMap entries
HMappings ==
    UNION { [ks -> {F.a_canon, F.b_p}] : ks \in Bounded({F.a_p, F.b_r}, MaxMap) }

\* ------------------------------------------------------------------------
\* Resolver calls: transform_path on drawn inputs
\* ------------------------------------------------------------------------

md_dir_of(rel_md) == Dirname(AbsOf(rel_md))

\* no run is in progress: the run's variables at rest
RunIdle ==
    /\ variant = "package"
    /\ categories = <<>>
    /\ data_dir = None
    /\ data_files = {}
    /\ content = <<>>
    /\ clock = 0
    /\ attachments = <<>>
    /\ ai = 1
    /\ new_name = None
    /\ used = {}
    /\ renamed = 0
    /\ details = <<>>
    /\ index_before = None
    /\ duplicates = None
    /\ mi = 1
    /\ total_files = 0
    /\ total_replacements = 0
    /\ changed_files = <<>>
    /\ invalid_references = <<>>
    /\ outcome = [kind |-> "none"]
    /\ disk0 = disk
    /\ content0 = <<>>
    /\ issued = <<>>
    /\ overwritten = {}
    /\ rename_failed = {}
    /\ read_failed = {}
    /\ calls = <<>>

ResolveInit ==
    /\ frontend = "cli"
    /\ HostIdle
    /\ pc = "call"
    /\ disk \in Bounded(HFiles, MaxDisk)
    /\ \E indexed \in Bounded(HFiles, MaxIndexed) : index_after = IndexOf(indexed)
    /\ mapping \in HMappings
    /\ h_url \in HUrls
    /\ h_md \in { <<"n",".","m","d">>, <<"a","/","n",".","m","d">> }
    /\ h_out = None
    /\ RunIdle

\* one call of transform_path from document h_md
Resolve ==
    /\ pc = "call"
    /\ pc' = "returned"
    /\ h_out' = transform_path(h_url, md_dir_of(h_md), RootDir, mapping,
                               index_after.markdown, index_after.attachments)
    /\ UNCHANGED <<host_vars, disk, mapping, index_after, h_url, h_md, run_vars>>

SpecResolve == ResolveInit /\ [][(Resolve)]_vars

\* ------------------------------------------------------------------------
\* Properties of resolver calls
\* ------------------------------------------------------------------------

\* the root-relative path a reference names when read from document rel_md
ResolvesTo(url, rel_md) ==
    RelPath(NormPath(PathJoin(md_dir_of(rel_md), url)), RootDir)

\* the call is on a relative reference whose resolved path is a mapping key
CallHitsMapping ==
    /\ Strip(h_url) # <<>>
    /\ ~is_external_or_absolute(Strip(h_url))
    /\ ResolvesTo(Strip(h_url), h_md) \in DOMAIN mapping

MappedTarget == mapping[ResolvesTo(Strip(h_url), h_md)]

\* C1. Mapping authority: a relative reference whose resolved root-relative
\* path is a mapping key with an existing target is returned as the
\* target's path relative to the document directory (a reference that
\* resolves to the target), resolved = true, whatever the filename search
\* over the index finds.
C1_MappingAuthority ==
    (pc = "returned" /\ CallHitsMapping /\ Exists(AbsOf(MappedTarget)))
        => /\ h_out.resolved
           /\ h_out.url = RelPath(AbsOf(MappedTarget), md_dir_of(h_md))
           /\ ResolvesTo(h_out.url, h_md) = MappedTarget

\* a mapping hit for which the filename search names another existing file
C1_Witness ==
    /\ pc = "returned"
    /\ CallHitsMapping
    /\ Exists(AbsOf(MappedTarget))
    /\ LET found == filename_repair(Strip(h_url), md_dir_of(h_md), RootDir,
                                    index_after.markdown, index_after.attachments)
       IN  found # None /\ found # h_out.url

\* the call names, by filename alone, a basename that two indexed
\* attachments share, and its resolved path is not a mapping key
CallIsAmbiguous ==
    /\ RFind(h_url, "/") = 0
    /\ \E i, j \in 1..Len(index_after.attachments) :
          /\ i # j
          /\ Basename(index_after.attachments[i]) = h_url
          /\ Basename(index_after.attachments[j]) = h_url
    /\ ResolvesTo(h_url, h_md) \notin DOMAIN mapping

\* C2 as stated. Ambiguity safety: such a reference comes back unchanged
\* with resolved = false.
C2_AlwaysBroken ==
    (pc = "returned" /\ CallIsAmbiguous)
        => h_out = [url |-> h_url, resolved |-> FALSE]

\* C2 as amended. Such a reference is never rewritten; it is reported
\* broken (resolved = false) unless the path it names from the document
\* directory exists on disk, in which case it is kept with resolved = true.
C2_NeverRewritten ==
    (pc = "returned" /\ CallIsAmbiguous)
        => /\ h_out.url = h_url
           /\ h_out.resolved = Exists(AbsOf(ResolvesTo(h_url, h_md)))

\* an ambiguous call, reported broken, with one of the two files on disk
C2_Witness ==
    /\ pc = "returned"
    /\ CallIsAmbiguous
    /\ ~h_out.resolved
    /\ \E f \in disk : Basename(f) = h_url

\* the reference classes the resolver must not touch, as the prefixes
\* the interface names
NamedExternal(u) ==
    \/ StartsWith(u, <<"h","t","t","p",":","/","/">>)
    \/ StartsWith(u, <<"h","t","t","p","s",":","/","/">>)
    \/ StartsWith(u, <<"f","t","p",":","/","/">>)
    \/ StartsWith(u, <<"m","a","i","l","t","o",":">>)
    \/ StartsWith(u, <<"t","e","l",":">>)
    \/ StartsWith(u, <<"d","a","t","a",":">>)
    \/ StartsWith(u, <<"/","/">>)
    \/ StartsWith(u, <<"#">>)
    \/ StartsWith(u, <<"/">>)
    \/ (Len(u) >= 3 /\ IsLetter(u[1]) /\ u[2] = ":" /\ u[3] \in {"\\", "/"})

\* C7 as stated. External references untouched: an external, absolute or
\* empty reference comes back as the very input, resolved = true.
C7_InputUnchanged ==
    (pc = "returned" /\ (h_url = <<>> \/ NamedExternal(h_url)))
        => h_out = [url |-> h_url, resolved |-> TRUE]

\* C7 as amended. An external, absolute or empty reference comes back as
\* the input with surrounding whitespace trimmed (the very input when it
\* carries none), resolved = true, whatever the mapping, index and disk.
C7_TrimmedUnchanged ==
    (pc = "returned" /\ (h_url = <<>> \/ NamedExternal(h_url)))
        => h_out = [url |-> Strip(h_url), resolved |-> TRUE]

\* an external reference with trailing whitespace, resolved with a mapping,
\* an index and a disk that are not empty
C7_Witness ==
    /\ pc = "returned"
    /\ h_url = U_https \o <<" ">>
    /\ h_out = [url |-> U_https, resolved |-> TRUE]
    /\ DOMAIN mapping # {}
    /\ disk # {}
    /\ Len(index_after.attachments) > 0

\* the call is on a relative reference whose basename does not end in .md
\* and whose resolved path is not a mapping key
CallSearchesAttachments ==
    /\ Strip(h_url) # <<>>
    /\ ~is_external_or_absolute(Strip(h_url))
    /\ ~EndsWith(Lower(Basename(Strip(h_url))), <<".","m","d">>)
    /\ ResolvesTo(Strip(h_url), h_md) \notin DOMAIN mapping

\* the indexed attachments whose basename is the reference's, letter for
\* letter
ExactAttachments ==
    SelectSeq(index_after.attachments,
              LAMBDA p : Basename(p) = Basename(Strip(h_url)))

\* C11. Exact-name fallback for attachments: a reference whose basename does
\* not end in .md and whose resolved path is not a mapping key is rewritten
\* to an attachment only when exactly one indexed attachment has that very
\* basename and the file exists; the result is then that file's path
\* relative to the document directory, resolved = true. In every other case
\* the reference is not rewritten: no substring or case-insensitive match
\* is used.
C11_ExactAttachmentOnly ==
    (pc = "returned" /\ CallSearchesAttachments) =>
        IF Len(ExactAttachments) = 1 /\ Exists(AbsOf(ExactAttachments[1]))
        THEN h_out = [url |-> RelPath(AbsOf(ExactAttachments[1]), md_dir_of(h_md)),
                      resolved |-> TRUE]
        ELSE h_out.url = Strip(h_url)

\* a reference to a path that does not exist, rewritten to the one
\* attachment that carries its basename
C11_Witness ==
    /\ pc = "returned"
    /\ CallSearchesAttachments
    /\ Len(ExactAttachments) = 1
    /\ ~Exists(AbsOf(ResolvesTo(Strip(h_url), h_md)))
    /\ h_out.resolved
    /\ h_out.url # Strip(h_url)
    /\ ResolvesTo(h_out.url, h_md) = ExactAttachments[1]

\* the call is on a relative reference that the mapping does not resolve
\* and for which the filename search finds no unique existing file, while
\* the path it names from the document directory exists
CallAlreadyValid ==
    /\ Strip(h_url) # <<>>
    /\ ~is_external_or_absolute(Strip(h_url))
    /\ \/ ResolvesTo(Strip(h_url), h_md) \notin DOMAIN mapping
       \/ ~Exists(AbsOf(MappedTarget))
    /\ LET filename == Basename(Strip(h_url))
           found == IF EndsWith(Lower(filename), <<".","m","d">>)
                    THEN find_markdown_by_filename(filename, index_after.markdown)
                    ELSE IF Len(ExactAttachments) = 1 THEN ExactAttachments[1]
                    ELSE None
       IN  found = None \/ ~Exists(AbsOf(found))
    /\ Exists(AbsOf(ResolvesTo(Strip(h_url), h_md)))

\* C19 as stated. Already-valid references are kept: such a reference comes
\* back as the very input, resolved = true.
C19_InputKept ==
    (pc = "returned" /\ CallAlreadyValid)
        => h_out = [url |-> h_url, resolved |-> TRUE]

\* C19 as amended. Such a reference comes back as the input with
\* surrounding whitespace trimmed (the very input when it carries none),
\* resolved = true.
C19_TrimmedKept ==
    (pc = "returned" /\ CallAlreadyValid)
        => h_out = [url |-> Strip(h_url), resolved |-> TRUE]

\* a reference by bare filename to the file next to the document, while the
\* index holds two attachments of that name
C19_Witness ==
    /\ pc = "returned"
    /\ CallAlreadyValid
    /\ Len(ExactAttachments) = 2
    /\ h_url = Strip(h_url)
    /\ h_out = [url |-> h_url, resolved |-> TRUE]

\* ------------------------------------------------------------------------
\* Single calls of the search, grouping and rewriting functions
\* ------------------------------------------------------------------------

\* bounds of these calls: files in the tree, references in the document
MaxCallFiles == 3

MaxCallRefs == 2

\* the document rewritten
CallsInit ==
    /\ frontend = "cli"
    /\ HostIdle
    /\ pc = "idle"
    /\ disk \in Bounded({F.p, F.a_p, F.b_r, F.c_r, F.b_fr, F.b_R, F.c_mdown}, MaxCallFiles)
    /\ index_after = IndexOf(disk)
    /\ mapping \in { <<>>, [k \in {F.b_q} |-> F.a_p] }
    /\ h_url \in { <<"r",".","m","d">>, <<"f","r",".","m","d">>, <<"R",".","M","D">>,
                   <<"x",".","m","d">> }
    /\ h_md = F.b_n
    /\ h_out = None
    /\ variant = "package"
    /\ categories = <<>>
    /\ data_dir = None
    /\ data_files = {}
    /\ \E n \in 0..MaxCallRefs :
          \E text \in [1..n -> { <<"q">> \o PNG, <<"x","/","p">> \o PNG,
                                  <<"r",".","m","d">>, U_https, <<" ","p">> \o PNG,
                                  <<"r",".","m","d","o","w","n">> }] :
             content = [d \in {F.b_n} |-> text]
    /\ clock = 0
    /\ attachments = <<>>
    /\ ai = 1
    /\ new_name = None
    /\ used = {}
    /\ renamed = 0
    /\ details = <<>>
    /\ index_before = None
    /\ duplicates = None
    /\ mi = 1
    /\ total_files = 0
    /\ total_replacements = 0
    /\ changed_files = <<>>
    /\ invalid_references = <<>>
    /\ outcome = [kind |-> "none"]
    /\ disk0 = disk
    /\ content0 = content
    /\ issued = <<>>
    /\ overwritten = {}
    /\ rename_failed = {}
    /\ read_failed = {}
    /\ calls = <<>>

\* find_markdown_by_filename(h_url, documents of the index)
CallFindMarkdown ==
    /\ pc = "idle"
    /\ pc' = "found"
    /\ h_out' = find_markdown_by_filename(h_url, index_after.markdown)
    /\ UNCHANGED <<host_vars, disk, mapping, index_after, h_url, h_md, run_vars>>

\* detect_duplicate_filenames(index): the groups and the flat list
CallDetectDuplicates ==
    /\ pc = "idle"
    /\ pc' = "grouped"
    /\ h_out' = [duplicates |-> detect_duplicate_filenames(index_after),
                 duplicate_list |-> duplicate_list(index_after)]
    /\ UNCHANGED <<host_vars, disk, mapping, index_after, h_url, h_md, run_vars>>

\* replace_in_markdown on the references of the document
CallReplace ==
    /\ pc = "idle"
    /\ pc' = "replaced"
    /\ h_out' = replace_in_markdown(content[h_md], AbsOf(h_md), RootDir,
                     mapping, index_after.markdown, index_after.attachments)
    /\ UNCHANGED <<host_vars, disk, mapping, index_after, h_url, h_md, run_vars>>

SpecCalls == CallsInit /\ [][(CallFindMarkdown \/ CallDetectDuplicates \/ CallReplace)]_vars

\* ------------------------------------------------------------------------
\* Properties of single calls
\* ------------------------------------------------------------------------

\* the two-stage search as specified, over all documents of the index
ReferenceSearch(filename, docs) ==
    LET exact == SelectSeq(docs, LAMBDA p : Basename(p) = filename)
        fuzzy == SelectSeq(docs,
                     LAMBDA p : Contains(Lower(Basename(p)), Lower(filename)))
    IN  IF Len(exact) = 1 THEN exact[1]
        ELSE IF Len(fuzzy) = 1 THEN fuzzy[1]
        ELSE None

\* C12 as stated. For every target basename and every document index,
\* find_markdown_by_filename returns what the two-stage reference search
\* returns: the one exact match, else the one case-insensitive substring
\* match, else nothing.
C12_MatchesReferenceSearch ==
    pc = "found" => h_out = ReferenceSearch(h_url, index_after.markdown)

\* a search whose index holds a document with another Markdown extension,
\* the only one the reference search finds, and which returns nothing
C12_Witness ==
    /\ pc = "found"
    /\ h_out = None
    /\ ReferenceSearch(h_url, index_after.markdown) = F.c_mdown

\* the paths of the index, documents first
IndexedPaths == index_after.markdown \o index_after.attachments

PathsNamed(name) == {p \in Range(IndexedPaths) : Basename(p) = name}

DuplicatedNames ==
    {Basename(p) : p \in {q \in Range(IndexedPaths) :
                             Cardinality(PathsNamed(Basename(q))) >= 2}}

\* C15. The groups detect_duplicate_filenames returns are exactly
\* the basenames that occur at two or more paths of the index, and each
\* group carries the sorted list of all paths with that basename.
C15_GroupsSorted ==
    pc = "grouped" =>
        /\ DOMAIN h_out.duplicates = DuplicatedNames
        /\ \A n \in DOMAIN h_out.duplicates :
              h_out.duplicates[n] = Sorted(PathsNamed(n))

\* a group whose paths are not in sorted order, next to a basename that
\* occurs once and one that differs from the group's in letter case only
C15_Witness ==
    /\ pc = "grouped"
    /\ h_out.duplicates = [n \in {Basename(F.p)} |-> <<F.p, F.a_p>>]
    /\ h_out.duplicate_list = << [name |-> Basename(F.p), path |-> F.a_p],
                                 [name |-> Basename(F.p), path |-> F.p] >>
    /\ Len(IndexedPaths) = 3

\* reference i of the document was rewritten by the filename search: it
\* is relative, the mapping step gave nothing, and the returned string is
\* not the trimmed reference
FallbackRewrite(i) ==
    LET url == Strip(content[h_md][i])
    IN  /\ url # <<>>
        /\ ~is_external_or_absolute(url)
        /\ mapping_repair(ResolvesTo(url, h_md), md_dir_of(h_md), RootDir, mapping) = None
        /\ h_out.results[i].url # url

\* C22. Duplicate basenames block automatic linking: a reference rewritten
\* by the filename search (exact or substring) points at an indexed file
\* whose basename occurs at no other path of the index; no reference is
\* ever rewritten by the search to a file whose basename occurs twice.
C22_FallbackTargetUnique ==
    pc = "replaced" =>
        \A i \in 1..Len(content[h_md]) :
            FallbackRewrite(i) =>
                LET target == ResolvesTo(h_out.results[i].url, h_md)
                IN  /\ target \in Range(IndexedPaths)
                    /\ PathsNamed(Basename(target)) = {target}

\* an index with p.png at two paths and one r.md: the reference to p.png
\* is left as written, the reference to r.md is rewritten by the search
C22_Witness ==
    /\ pc = "replaced"
    /\ disk = {F.p, F.a_p, F.c_r}
    /\ Len(content[h_md]) = 2
    /\ content[h_md][1] = <<"x","/","p">> \o PNG
    /\ ~FallbackRewrite(1)
    /\ ~h_out.results[1].resolved
    /\ FallbackRewrite(2)
    /\ ResolvesTo(h_out.results[2].url, h_md) = F.c_r

\* C23. Document references use the document index: for every indexed
\* document (.md, .markdown, .mdown, .mkd, .mkdown) whose basename no other
\* indexed document carries, a broken relative reference with that very
\* basename is rewritten by the search to that document's path relative to
\* the referring document, resolved = true.
C23_DocumentFallback ==
    pc = "replaced" =>
        \A i \in 1..Len(content[h_md]) :
            \A doc \in Range(index_after.markdown) :
                LET url == Strip(content[h_md][i])
                IN  ( /\ url # <<>>
                      /\ ~is_external_or_absolute(url)
                      /\ Basename(url) = Basename(doc)
                      /\ \A other \in Range(index_after.markdown) :
                            Basename(other) = Basename(doc) => other = doc
                      /\ ~Exists(AbsOf(ResolvesTo(url, h_md)))
                      /\ ResolvesTo(url, h_md) \notin DOMAIN mapping )
                    => h_out.results[i] =
                          [url |-> RelPath(AbsOf(doc), md_dir_of(h_md)),
                           resolved |-> TRUE]

\* the reference r.mdown, broken where it stands, with c/r.mdown the only
\* document of that name in the index: it is returned as unresolved
C23_Witness ==
    /\ pc = "replaced"
    /\ content[h_md] = << <<"r",".","m","d","o","w","n">> >>
    /\ F.c_mdown \in Range(index_after.markdown)
    /\ h_out.results[1] = [url |-> <<"r",".","m","d","o","w","n">>, resolved |-> FALSE]
    /\ h_out.broken_links = << <<"r",".","m","d","o","w","n">> >>

\* C27 as stated. A broken reference is left as it was: for every
\* reference recorded as broken the string spliced back is the extracted
\* string, and the reference is not counted as a replacement.
C27_BrokenUntouched ==
    pc = "replaced" =>
        LET text == content[h_md]
        IN  /\ \A i \in 1..Len(text) :
                  ~h_out.results[i].resolved => h_out.new_content[i] = text[i]
            /\ h_out.count =
                  Cardinality({i \in 1..Len(text) :
                      h_out.results[i].resolved /\ h_out.new_content[i] # text[i]})

\* C27 as amended. For every reference recorded as broken the string
\* spliced back is the extracted string with surrounding whitespace
\* trimmed (the extracted string itself in the Markdown-link form, which
\* extracts none), and the reference is counted as a replacement exactly
\* when trimming changed it.
C27_BrokenTrimmed ==
    pc = "replaced" =>
        LET text == content[h_md]
        IN  /\ \A i \in 1..Len(text) :
                  ~h_out.results[i].resolved =>
                      h_out.new_content[i] = Strip(text[i])
            /\ h_out.count =
                  Cardinality({i \in 1..Len(text) :
                      IF h_out.results[i].resolved
                      THEN h_out.new_content[i] # text[i]
                      ELSE Strip(text[i]) # text[i]})

\* a document whose two references are both broken, one extracted with a
\* leading blank: that one is spliced back trimmed and counted
C27_Witness ==
    /\ pc = "replaced"
    /\ content[h_md] = << <<"x","/","p">> \o PNG, <<" ","p">> \o PNG >>
    /\ h_out.broken_links = content[h_md]
    /\ h_out.new_content = << <<"x","/","p">> \o PNG, <<"p">> \o PNG >>
    /\ h_out.count = 1

\* what transform_path returns for reference i of the document
CallResult(i) ==
    transform_path(content[h_md][i], md_dir_of(h_md), RootDir, mapping,
                   index_after.markdown, index_after.attachments)

\* C20. Counting rule: replace_in_markdown splices back what transform_path
\* returned for each reference; the replacement count it returns is the
\* number of references whose spliced string differs from the extracted
\* one, and the broken list holds, in order, exactly the references for
\* which transform_path returned resolved = false.
C20_CountingRule ==
    pc = "replaced" =>
        LET text == content[h_md]
            positions == [i \in 1..Len(text) |-> i]
            failed == SelectSeq(positions, LAMBDA i : ~CallResult(i).resolved)
        IN  /\ Len(h_out.new_content) = Len(text)
            /\ \A i \in 1..Len(text) : h_out.new_content[i] = CallResult(i).url
            /\ h_out.count =
                  Cardinality({i \in 1..Len(text) : h_out.new_content[i] # text[i]})
            /\ h_out.broken_links = [k \in 1..Len(failed) |-> text[failed[k]]]

\* a document with a reference that is resolved and left as written, and
\* one that is rewritten
C20_Witness ==
    /\ pc = "replaced"
    /\ Len(content[h_md]) = 2
    /\ h_out.count = 1
    /\ h_out.broken_links = <<>>
    /\ h_out.new_content[1] = content[h_md][1]
    /\ ~is_external_or_absolute(content[h_md][1])

\* ------------------------------------------------------------------------
\* One run of run_pipeline
\* ------------------------------------------------------------------------

\* bounds of a run: files in the tree, references per document, the last
\* millisecond tick the clock reaches, the largest random draw modelled
MaxFiles == 3

MaxRefs == 1

MaxClock == 1

MaxRand == 1

\* the category lists a caller may pass
CategoryInputs == { <<T_image>>, <<T_all>>, <<T_office>>, <<T_other>>,
                    <<T_image, <<"b","o","g","u","s">>>> }

\* the data directory of a run that is given one (outside the root)
DataDir == <<"/","d">>

\* the running program's own file: sys.executable or core.py itself, here
\* a file that may lie in the tree
SelfExec == PathJoin(RootDir, F.tool)

RefSeqs == UNION {[1..n -> { <<"p">> \o PNG, <<".",".","/","b","/","p">> \o PNG,
                             <<"x","/","p">> \o PNG, <<"r",".","m","d">>,
                             U_https }] : n \in 0..MaxRefs}

IsDoc(rel) == is_markdown_file(Basename(rel))

Init ==
    /\ frontend = "cli"
    /\ HostIdle
    /\ pc = "start"
    /\ variant \in {"package", "script"}
    /\ categories \in CategoryInputs
    /\ data_dir \in {None, DataDir}
    /\ disk \in Bounded({F.a_p, F.b_p, F.a_canon, F.a_n, F.b_r}, MaxFiles)
    /\ data_files = {}
    /\ content \in [{f \in disk : IsDoc(f)} -> RefSeqs]
    /\ clock = 0
    /\ attachments = <<>>
    /\ ai = 1
    /\ new_name = None
    /\ used = {}
    /\ mapping = <<>>
    /\ renamed = 0
    /\ details = <<>>
    /\ index_before = None
    /\ duplicates = None
    /\ index_after = None
    /\ mi = 1
    /\ total_files = 0
    /\ total_replacements = 0
    /\ changed_files = <<>>
    /\ invalid_references = <<>>
    /\ outcome = [kind |-> "none"]
    /\ disk0 = disk
    /\ content0 = content
    /\ issued = <<>>
    /\ overwritten = {}
    /\ rename_failed = {}
    /\ read_failed = {}
    /\ calls = <<>>
    /\ h_url = None
    /\ h_md = None
    /\ h_out = None

\* run_pipeline, first statement after normalising the root: the category
\* check; a ValueError ends the run
Validate ==
    /\ pc = "start"
    /\ IF resolve_allowed_extensions(categories).raises
       THEN /\ pc' = "failed"
            /\ outcome' = [kind |-> "error", error |-> "ValueError"]
       ELSE /\ pc' = IF variant = "package" THEN "index_before" ELSE "walk"
            /\ UNCHANGED outcome
    /\ UNCHANGED <<host_vars, disk, mapping, index_after, call_vars, variant, categories,
                   data_dir, data_files, content, clock, attachments, ai,
                   new_name, used, renamed, details, index_before, duplicates,
                   mi, total_files, total_replacements, changed_files,
                   invalid_references, disk0, content0, issued, overwritten,
                   rename_failed, read_failed, calls>>

\* core.py run_pipeline: index_before = build_file_index(root_dir)
BuildIndexBefore ==
    /\ pc = "index_before"
    /\ index_before' = build_file_index(RootDir)
    /\ pc' = "duplicates"
    /\ UNCHANGED <<host_vars, disk, mapping, index_after, call_vars, variant, categories,
                   data_dir, data_files, content, clock, attachments, ai,
                   new_name, used, renamed, details, duplicates,
                   mi, total_files, total_replacements, changed_files,
                   invalid_references, outcome, disk0, content0, issued,
                   overwritten, rename_failed, read_failed, calls>>

\* detect_duplicate_filenames: on index_before ahead of the renames in
\* core.py, on the one index after the rewrite pass in the single-file script
DetectDuplicates ==
    /\ pc = "duplicates"
    /\ duplicates' = detect_duplicate_filenames(
                        IF variant = "package" THEN index_before ELSE index_after)
    /\ pc' = IF variant = "package" THEN "walk" ELSE "delete_mapping"
    /\ UNCHANGED <<host_vars, disk, mapping, index_after, call_vars, variant, categories,
                   data_dir, data_files, content, clock, attachments, ai,
                   new_name, used, renamed, details, index_before,
                   mi, total_files, total_replacements, changed_files,
                   invalid_references, outcome, disk0, content0, issued,
                   overwritten, rename_failed, read_failed, calls>>

\* rename_attachments: the candidate list
WalkAttachments ==
    /\ pc = "walk"
    /\ LET r == resolve_allowed_extensions(categories)
       IN  attachments' = walk_attachments(RootDir, SelfExec, r.allowed, r.allow_all)
    /\ ai' = 1
    /\ pc' = IF Len(attachments') = 0 THEN "save_mapping" ELSE "rename"
    /\ UNCHANGED <<host_vars, disk, mapping, index_after, call_vars, variant, categories,
                   data_dir, data_files, content, clock, new_name, used,
                   renamed, details, index_before, duplicates,
                   mi, total_files, total_replacements, changed_files,
                   invalid_references, outcome, disk0, content0, issued,
                   overwritten, rename_failed, read_failed, calls>>

\* ------------------------------------------------------------------------
\* rename_attachments
\* ------------------------------------------------------------------------

\* the ticks datetime.now() may return next: the clock never runs backwards
Now == {t \in clock..(clock + 1) : t <= MaxClock}

\* variant: the name is not looked up on disk
generate_without_disk_check(target_dir, ext, used_names, now, rand) ==
    LET name == candidate_name(now, rand, ext)
    IN  IF name \in used_names THEN None ELSE name

\* one iteration of the loop of generate_unique_filename, the clock reading
\* `now` and the draw `rand`: the name returned, or None to loop again
generate_unique_filename(target_dir, ext, used_names, now, rand) ==
    LET name == candidate_name(now, rand, ext)
    IN  IF name \in used_names THEN None
        ELSE IF ~Exists(PathJoin(target_dir, name)) THEN name
        ELSE None

rel_old == attachments[ai]

abs_old == AbsOf(rel_old)

\* the rename loop moves to the next candidate, or returns
AfterCandidate == IF ai + 1 > Len(attachments) THEN "save_mapping" ELSE "rename"

\* the set of issued names is local to rename_attachments: it is gone when
\* the loop is left
ReturnFromRename ==
    IF AfterCandidate = "save_mapping"
    THEN used' = {} /\ issued' = <<>>
    ELSE UNCHANGED <<used, issued>>

\* generate_unique_filename: an iteration that ends in `continue` or falls
\* through the disk check
GenerateRetry ==
    /\ pc = "rename"
    /\ \E target_dir \in {Dirname(abs_old)}, ext \in {SplitExt(Basename(abs_old))[2]} :
          \E now \in Now, rand \in 0..MaxRand :
             /\ generate_unique_filename(target_dir, ext, used, now, rand) = None
             /\ clock' = now
    /\ UNCHANGED <<host_vars, pc, variant, categories, data_dir, disk, data_files,
                   content, attachments, ai, new_name, used, mapping,
                   renamed, details, index_before, duplicates, index_after,
                   mi, total_files, total_replacements, changed_files,
                   invalid_references, outcome, disk0, content0, issued,
                   overwritten, rename_failed, read_failed, calls, h_url,
                   h_md, h_out>>

\* generate_unique_filename: the iteration that returns
GenerateReturn ==
    /\ pc = "rename"
    /\ \E target_dir \in {Dirname(abs_old)}, ext \in {SplitExt(Basename(abs_old))[2]} :
          \E now \in Now, rand \in 0..MaxRand :
             \E name \in {generate_unique_filename(target_dir, ext, used, now, rand)} :
                /\ name # None
                /\ clock' = now
                /\ new_name' = name
                /\ used' = used \cup {name}
                /\ issued' = Append(issued, name)
    /\ pc' = "os_rename"
    /\ UNCHANGED <<host_vars, variant, categories, data_dir, disk, data_files, content,
                   attachments, ai, mapping, renamed, details, index_before,
                   duplicates, index_after, mi, total_files,
                   total_replacements, changed_files, invalid_references,
                   outcome, disk0, content0, overwritten, rename_failed,
                   read_failed, calls, h_url, h_md, h_out>>

\* rename_attachments, the try block: os.rename succeeds
RenameOk ==
    /\ pc = "os_rename"
    /\ LET abs_new == PathJoin(Dirname(abs_old), new_name)
           rel_new == RelPath(abs_new, RootDir)
       IN  /\ disk' = (disk \ {rel_old}) \cup {rel_new}
           /\ overwritten' = overwritten \cup ({rel_new} \cap disk)
           /\ mapping' = [k \in DOMAIN mapping \cup {rel_old} |->
                             IF k = rel_old THEN rel_new ELSE mapping[k]]
           /\ details' = Append(details, [old |-> Basename(rel_old),
                                          new |-> Basename(rel_new),
                                          path |-> Dirname(rel_old)])
    /\ renamed' = renamed + 1
    /\ new_name' = None
    /\ ai' = ai + 1
    /\ pc' = AfterCandidate
    /\ ReturnFromRename
    /\ UNCHANGED <<host_vars, variant, categories, data_dir, data_files, content, clock,
                   attachments, index_before, duplicates, index_after,
                   mi, total_files, total_replacements, changed_files,
                   invalid_references, outcome, disk0, content0,
                   rename_failed, read_failed, calls, h_url, h_md, h_out>>

\* variant: the loop is left at the first os.rename that raises
RenameFails_stops ==
    /\ pc = "os_rename"
    /\ rename_failed' = rename_failed \cup {rel_old}
    /\ new_name' = None
    /\ ai' = ai + 1
    /\ pc' = "save_mapping"
    /\ used' = {}
    /\ issued' = <<>>
    /\ UNCHANGED <<host_vars, variant, categories, data_dir, disk, data_files, content,
                   clock, attachments, mapping, renamed, details,
                   index_before, duplicates, index_after, mi, total_files,
                   total_replacements, changed_files, invalid_references,
                   outcome, disk0, content0, overwritten,
                   read_failed, calls, h_url, h_md, h_out>>

\* variant: a rename that raised is counted as done
RenameFails_counted ==
    /\ pc = "os_rename"
    /\ rename_failed' = rename_failed \cup {rel_old}
    /\ renamed' = renamed + 1
    /\ new_name' = None
    /\ ai' = ai + 1
    /\ pc' = AfterCandidate
    /\ ReturnFromRename
    /\ UNCHANGED <<host_vars, variant, categories, data_dir, disk, data_files, content,
                   clock, attachments, mapping, details,
                   index_before, duplicates, index_after, mi, total_files,
                   total_replacements, changed_files, invalid_references,
                   outcome, disk0, content0, overwritten,
                   read_failed, calls, h_url, h_md, h_out>>

\* rename_attachments, the except block: os.rename raised, the error is logged
RenameFails ==
    /\ pc = "os_rename"
    /\ rename_failed' = rename_failed \cup {rel_old}
    /\ new_name' = None
    /\ ai' = ai + 1
    /\ pc' = AfterCandidate
    /\ ReturnFromRename
    /\ UNCHANGED <<host_vars, variant, categories, data_dir, disk, data_files, content,
                   clock, attachments, mapping, renamed, details,
                   index_before, duplicates, index_after, mi, total_files,
                   total_replacements, changed_files, invalid_references,
                   outcome, disk0, content0, overwritten,
                   read_failed, calls, h_url, h_md, h_out>>

\* ------------------------------------------------------------------------
\* The two artefacts written between the phases
\* ------------------------------------------------------------------------

\* a file the run writes into data_dir or, without one, into the root
WriteArtefact(name) ==
    IF data_dir = None
    THEN disk' = disk \cup {name} /\ UNCHANGED data_files
    ELSE data_files' = data_files \cup {name} /\ UNCHANGED disk

ArtefactExists(name) ==
    IF data_dir = None THEN name \in disk ELSE name \in data_files

save_mapping ==
    /\ pc = "save_mapping"
    /\ WriteArtefact(MAPPING_FILENAME)
    /\ pc' = "index_after"
    /\ UNCHANGED <<host_vars, variant, categories, data_dir, content, clock,
                   attachments, ai, new_name, used, mapping, renamed,
                   details, index_before, duplicates, index_after, mi,
                   total_files, total_replacements, changed_files,
                   invalid_references, outcome, disk0, content0, issued,
                   overwritten, rename_failed, read_failed, calls, h_url,
                   h_md, h_out>>

\* the rewrite loop moves to document `next`, or returns
AfterDocument(index, next) ==
    IF next <= Len(index.markdown) THEN "process"
    ELSE IF variant = "package" THEN "delete_mapping" ELSE "duplicates"

\* variant: the index used for resolution is the one of the tree the run
\* started on
BuildIndexAfter_before_renames ==
    /\ pc = "index_after"
    /\ index_after' = IndexOf(disk0)
    /\ pc' = "save_index"
    /\ UNCHANGED <<host_vars, variant, categories, data_dir, disk, data_files, content,
                   clock, attachments, ai, new_name, used, mapping, renamed,
                   details, index_before, duplicates, mi, total_files,
                   total_replacements, changed_files, invalid_references,
                   outcome, disk0, content0, issued, overwritten,
                   rename_failed, read_failed, calls, h_url, h_md, h_out>>

BuildIndexAfter ==
    /\ pc = "index_after"
    /\ index_after' = build_file_index(RootDir)
    /\ pc' = "save_index"
    /\ UNCHANGED <<host_vars, variant, categories, data_dir, disk, data_files, content,
                   clock, attachments, ai, new_name, used, mapping, renamed,
                   details, index_before, duplicates, mi, total_files,
                   total_replacements, changed_files, invalid_references,
                   outcome, disk0, content0, issued, overwritten,
                   rename_failed, read_failed, calls, h_url, h_md, h_out>>

save_index ==
    /\ pc = "save_index"
    /\ WriteArtefact(INDEX_FILENAME)
    /\ mi' = 1
    /\ pc' = AfterDocument(index_after, 1)
    /\ UNCHANGED <<host_vars, variant, categories, data_dir, content, clock,
                   attachments, ai, new_name, used, mapping, renamed,
                   details, index_before, duplicates, index_after,
                   total_files, total_replacements, changed_files,
                   invalid_references, outcome, disk0, content0, issued,
                   overwritten, rename_failed, read_failed, calls, h_url,
                   h_md, h_out>>

\* safe_delete(path): nothing when the file is absent; os.remove may raise,
\* which is logged and leaves the file
safe_delete(name) ==
    IF ~ArtefactExists(name) THEN UNCHANGED <<disk, data_files>>
    ELSE \/ IF data_dir = None
            THEN disk' = disk \ {name} /\ UNCHANGED data_files
            ELSE data_files' = data_files \ {name} /\ UNCHANGED disk
         \/ UNCHANGED <<disk, data_files>>

SafeDeleteMapping ==
    /\ pc = "delete_mapping"
    /\ safe_delete(MAPPING_FILENAME)
    /\ pc' = "delete_index"
    /\ UNCHANGED <<host_vars, variant, categories, data_dir, content, clock,
                   attachments, ai, new_name, used, mapping, renamed,
                   details, index_before, duplicates, index_after, mi,
                   total_files, total_replacements, changed_files,
                   invalid_references, outcome, disk0, content0, issued,
                   overwritten, rename_failed, read_failed, calls, h_url,
                   h_md, h_out>>

SafeDeleteIndex ==
    /\ pc = "delete_index"
    /\ safe_delete(INDEX_FILENAME)
    /\ pc' = "summary"
    /\ UNCHANGED <<host_vars, variant, categories, data_dir, content, clock,
                   attachments, ai, new_name, used, mapping, renamed,
                   details, index_before, duplicates, index_after, mi,
                   total_files, total_replacements, changed_files,
                   invalid_references, outcome, disk0, content0, issued,
                   overwritten, rename_failed, read_failed, calls, h_url,
                   h_md, h_out>>

\* ------------------------------------------------------------------------
\* process_markdown_files
\* ------------------------------------------------------------------------

rel_md == index_after.markdown[mi]

\* the rewrite of the current document
Rewritten ==
    replace_in_markdown(content[rel_md], AbsOf(rel_md), RootDir, mapping,
                        index_after.markdown, index_after.attachments)

\* the transform_path calls a rewrite of the current document made
CallsOfDocument(rw) ==
    [i \in 1..Len(content[rel_md]) |->
        [file |-> rel_md, link |-> content[rel_md][i], out |-> rw.results[i]]]

BrokenOfDocument(rw) ==
    [k \in 1..Len(rw.broken_links) |->
        [file |-> rel_md, link |-> rw.broken_links[k]]]

\* the read of the current document raises: logged, next document
ReadFails ==
    /\ pc = "process"
    /\ read_failed' = read_failed \cup {rel_md}
    /\ mi' = mi + 1
    /\ pc' = AfterDocument(index_after, mi + 1)
    /\ UNCHANGED <<host_vars, variant, categories, data_dir, disk, data_files, content,
                   clock, attachments, ai, new_name, used, mapping, renamed,
                   details, index_before, duplicates, index_after,
                   total_files, total_replacements, changed_files,
                   invalid_references, outcome, disk0, content0, issued,
                   overwritten, rename_failed, calls, h_url, h_md, h_out>>

\* variant: every scanned document is written back, replaced or not
ProcessDocument_without_skip ==
    /\ pc = "process"
    /\ \E rw \in {Rewritten} :
        /\ invalid_references' = invalid_references \o BrokenOfDocument(rw)
        /\ calls' = calls \o CallsOfDocument(rw)
        /\ total_files' = total_files + 1
        /\ total_replacements' = total_replacements + rw.count
        /\ changed_files' = Append(changed_files, rel_md)
        /\ content' = [content EXCEPT ![rel_md] = rw.new_content]
    /\ mi' = mi + 1
    /\ pc' = AfterDocument(index_after, mi + 1)
    /\ UNCHANGED <<host_vars, variant, categories, data_dir, disk, data_files, clock,
                   attachments, ai, new_name, used, mapping, renamed,
                   details, index_before, duplicates, index_after, outcome,
                   disk0, content0, issued, overwritten, rename_failed,
                   read_failed, h_url, h_md, h_out>>

\* variant: the broken references of a document are recorded only when the
\* document is written back
ProcessDocument_records_when_changed ==
    /\ pc = "process"
    /\ \E rw \in {Rewritten} :
        /\ calls' = calls \o CallsOfDocument(rw)
        /\ IF rw.count = 0
           THEN UNCHANGED <<total_files, total_replacements, changed_files,
                            content, invalid_references>>
           ELSE /\ invalid_references' =
                      invalid_references \o BrokenOfDocument(rw)
                /\ total_files' = total_files + 1
                /\ total_replacements' = total_replacements + rw.count
                /\ changed_files' = Append(changed_files, rel_md)
                /\ content' = [content EXCEPT ![rel_md] = rw.new_content]
    /\ mi' = mi + 1
    /\ pc' = AfterDocument(index_after, mi + 1)
    /\ UNCHANGED <<host_vars, variant, categories, data_dir, disk, data_files, clock,
                   attachments, ai, new_name, used, mapping, renamed,
                   details, index_before, duplicates, index_after, outcome,
                   disk0, content0, issued, overwritten, rename_failed,
                   read_failed, h_url, h_md, h_out>>

\* one pass of the loop body: read, rewrite, record the broken references,
\* and write the document back when something was replaced
ProcessDocument ==
    /\ pc = "process"
    /\ \E rw \in {Rewritten} :
        /\ invalid_references' = invalid_references \o BrokenOfDocument(rw)
        /\ calls' = calls \o CallsOfDocument(rw)
        /\ IF rw.count = 0
           THEN UNCHANGED <<total_files, total_replacements, changed_files,
                            content>>
           ELSE /\ total_files' = total_files + 1
                /\ total_replacements' = total_replacements + rw.count
                /\ changed_files' = Append(changed_files, rel_md)
                /\ content' = [content EXCEPT ![rel_md] = rw.new_content]
    /\ mi' = mi + 1
    /\ pc' = AfterDocument(index_after, mi + 1)
    /\ UNCHANGED <<host_vars, variant, categories, data_dir, disk, data_files, clock,
                   attachments, ai, new_name, used, mapping, renamed,
                   details, index_before, duplicates, index_after, outcome,
                   disk0, content0, issued, overwritten, rename_failed,
                   read_failed, h_url, h_md, h_out>>

\* the loop body when writing the document back raises: nothing catches
\* the exception, it leaves process_markdown_files and run_pipeline
WriteFails ==
    /\ pc = "process"
    /\ \E rw \in {Rewritten} :
        /\ rw.count # 0
        /\ invalid_references' = invalid_references \o BrokenOfDocument(rw)
        /\ calls' = calls \o CallsOfDocument(rw)
        /\ total_files' = total_files + 1
        /\ total_replacements' = total_replacements + rw.count
        /\ changed_files' = Append(changed_files, rel_md)
    /\ outcome' = [kind |-> "error", error |-> "OSError"]
    /\ pc' = "failed"
    /\ UNCHANGED <<host_vars, variant, categories, data_dir, disk, data_files, content,
                   clock, attachments, ai, new_name, used, mapping, renamed,
                   details, index_before, duplicates, index_after, mi, disk0,
                   content0, issued, overwritten, rename_failed, read_failed,
                   h_url, h_md, h_out>>

\* ------------------------------------------------------------------------
\* The summary
\* ------------------------------------------------------------------------

\* run_pipeline builds the summary, writes the reports when given a data
\* directory, and returns
Summarize ==
    /\ pc = "summary"
    /\ outcome' = [kind |-> "summary",
                   rename_candidates |-> Len(attachments),
                   renamed_files |-> renamed,
                   markdown_fixed |-> total_files,
                   replacements |-> total_replacements,
                   rename_category_keys |->
                       resolve_allowed_extensions(categories).normalized,
                   duplicates |-> duplicates,
                   rename_details |-> details,
                   fixed_files |-> changed_files,
                   invalid_references |-> invalid_references,
                   invalid_reference_count |-> Len(invalid_references)]
    /\ IF data_dir = None THEN UNCHANGED data_files
       ELSE data_files' = data_files \cup
               { <<"l","a","t","e","s","t","_","s","u","m","m","a","r","y",".","j","s","o","n">>,
                 <<"l","a","t","e","s","t","_","r","e","p","o","r","t",".","m","d">> }
    /\ pc' = "done"
    /\ UNCHANGED <<host_vars, variant, categories, data_dir, disk, content, clock,
                   attachments, ai, new_name, used, mapping, renamed,
                   details, index_before, duplicates, index_after, mi,
                   total_files, total_replacements, changed_files,
                   invalid_references, disk0, content0, issued, overwritten,
                   rename_failed, read_failed, calls, h_url, h_md, h_out>>

Next ==
    \/ Validate
    \/ BuildIndexBefore
    \/ DetectDuplicates
    \/ WalkAttachments
    \/ GenerateRetry
    \/ GenerateReturn
    \/ RenameOk
    \/ RenameFails
    \/ save_mapping
    \/ BuildIndexAfter
    \/ save_index
    \/ ReadFails
    \/ ProcessDocument
    \/ WriteFails
    \/ SafeDeleteMapping
    \/ SafeDeleteIndex
    \/ Summarize

Spec == Init /\ [][Next]_vars

\* ------------------------------------------------------------------------
\* Runs over trees with excluded directories and ineligible files
\* ------------------------------------------------------------------------

\* bound: files in such a tree
MaxTree == 3

InitTree ==
    /\ frontend = "cli"
    /\ HostIdle
    /\ pc = "start"
    /\ variant \in {"package", "script"}
    /\ categories \in { <<T_image>>, <<T_office>>, <<T_all>> }
    /\ data_dir = None
    /\ disk \in Bounded({F.a_p, F.a_n, F.a_canon, F.tool, F.a_exe, F.a_pdf, F.a_PNG,
                         F.a_dot, F.git_p, F.git_n, F.cache_p, F.app_p}, MaxTree)
    /\ data_files = {}
    /\ content = [f \in {g \in disk : IsDoc(g)} |-> (<< <<"p">> \o PNG,
                              <<".",".","/",".","g","i","t","/","p">> \o PNG >>)]
    /\ clock = 0
    /\ attachments = <<>>
    /\ ai = 1
    /\ new_name = None
    /\ used = {}
    /\ mapping = <<>>
    /\ renamed = 0
    /\ details = <<>>
    /\ index_before = None
    /\ duplicates = None
    /\ index_after = None
    /\ mi = 1
    /\ total_files = 0
    /\ total_replacements = 0
    /\ changed_files = <<>>
    /\ invalid_references = <<>>
    /\ outcome = [kind |-> "none"]
    /\ disk0 = disk
    /\ content0 = content
    /\ issued = <<>>
    /\ overwritten = {}
    /\ rename_failed = {}
    /\ read_failed = {}
    /\ calls = <<>>
    /\ h_url = None
    /\ h_md = None
    /\ h_out = None

SpecTree == InitTree /\ [][Next]_vars

\* ------------------------------------------------------------------------
\* Runs over trees with three documents
\* ------------------------------------------------------------------------

InitDocs ==
    /\ frontend = "cli"
    /\ HostIdle
    /\ pc = "start"
    /\ variant \in {"package", "script"}
    /\ categories = <<T_image>>
    /\ data_dir = None
    /\ disk \in SUBSET {F.a_p, F.a_canon, F.a_n, F.b_fr, F.b_r}
    /\ data_files = {}
    /\ content \in [{f \in disk : IsDoc(f)} ->
                       { << <<"p">> \o PNG >>, << <<"r",".","m","d">> >> }]
    /\ clock = 0
    /\ attachments = <<>>
    /\ ai = 1
    /\ new_name = None
    /\ used = {}
    /\ mapping = <<>>
    /\ renamed = 0
    /\ details = <<>>
    /\ index_before = None
    /\ duplicates = None
    /\ index_after = None
    /\ mi = 1
    /\ total_files = 0
    /\ total_replacements = 0
    /\ changed_files = <<>>
    /\ invalid_references = <<>>
    /\ outcome = [kind |-> "none"]
    /\ disk0 = disk
    /\ content0 = content
    /\ issued = <<>>
    /\ overwritten = {}
    /\ rename_failed = {}
    /\ read_failed = {}
    /\ calls = <<>>
    /\ h_url = None
    /\ h_md = None
    /\ h_out = None

SpecDocs == InitDocs /\ [][Next]_vars

\* ------------------------------------------------------------------------
\* Runs whose name generation meets taken names, under fair scheduling
\* ------------------------------------------------------------------------

\* trees in which both names of tick 0 may already exist in the directory
\* of a candidate
InitNames ==
    /\ frontend = "cli"
    /\ HostIdle
    /\ pc = "start"
    /\ variant \in {"package", "script"}
    /\ categories = <<T_image>>
    /\ data_dir = None
    /\ disk \in SUBSET {F.a_p, F.b_p, F.a_canon,
                        <<"a","/">> \o candidate_name(0, 1, PNG), F.a_n}
    /\ data_files = {}
    /\ content = [f \in {g \in disk : IsDoc(g)} |-> << <<"p">> \o PNG >>]
    /\ clock = 0
    /\ attachments = <<>>
    /\ ai = 1
    /\ new_name = None
    /\ used = {}
    /\ mapping = <<>>
    /\ renamed = 0
    /\ details = <<>>
    /\ index_before = None
    /\ duplicates = None
    /\ index_after = None
    /\ mi = 1
    /\ total_files = 0
    /\ total_replacements = 0
    /\ changed_files = <<>>
    /\ invalid_references = <<>>
    /\ outcome = [kind |-> "none"]
    /\ disk0 = disk
    /\ content0 = content
    /\ issued = <<>>
    /\ overwritten = {}
    /\ rename_failed = {}
    /\ read_failed = {}
    /\ calls = <<>>
    /\ h_url = None
    /\ h_md = None
    /\ h_out = None

\* the loop of generate_unique_filename keeps iterating with a clock that
\* advances and draws that vary, so an iteration that changes the state (a
\* new tick is read, or a name is returned) is eventually taken when one
\* stays possible; os.rename returns or raises
SpecNames ==
    /\ InitNames
    /\ [][Next]_vars
    /\ WF_vars(GenerateRetry \/ GenerateReturn)
    /\ WF_vars(RenameFails \/ RenameOk)

\* ------------------------------------------------------------------------
\* Properties of one run
\* ------------------------------------------------------------------------

\* the rewrite pass is running or has just returned: the tree, the mapping
\* and the index are the ones the pass worked with
PassTreeInPlace ==
    /\ index_after # None
    /\ pc \in {"process", "delete_mapping", "duplicates"}

\* the documents the pass has read and rewritten so far
DocumentsDone ==
    {index_after.markdown[k] : k \in 1..(mi - 1)} \ read_failed

SecondPass(doc) ==
    replace_in_markdown(content[doc], AbsOf(doc), RootDir, mapping,
                        index_after.markdown, index_after.attachments)

\* C3. Idempotence of rewriting: with the same mapping, the same index and
\* the tree as the pass left it, every reference transform_path returned as
\* resolved is returned unchanged when transform_path is applied to it from
\* the same document, and rewriting a document the pass has already
\* rewritten substitutes nothing and leaves its content as it is.
C3_RewriteIdempotent ==
    PassTreeInPlace =>
        /\ \A i \in 1..Len(calls) :
              calls[i].out.resolved =>
                 transform_path(calls[i].out.url, md_dir_of(calls[i].file),
                                RootDir, mapping, index_after.markdown,
                                index_after.attachments) = calls[i].out
        /\ \A doc \in DocumentsDone :
              /\ SecondPass(doc).count = 0
              /\ SecondPass(doc).new_content = content[doc]

\* the pass has returned after rewriting a reference through the mapping
\* and another through the filename search
C3_Witness ==
    /\ PassTreeInPlace
    /\ pc # "process"
    /\ \E i, j \in 1..Len(calls) :
          /\ calls[i].out.url # calls[i].link
          /\ ResolvesTo(calls[i].link, calls[i].file) \in DOMAIN mapping
          /\ calls[j].out.url # calls[j].link
          /\ ResolvesTo(calls[j].link, calls[j].file) \notin DOMAIN mapping
    /\ Len(changed_files) = 2

\* C4. Canonical-name uniqueness and no overwrite: the names
\* generate_unique_filename returns within one run of rename_attachments are
\* pairwise distinct, no file exists at the destination when os.rename is
\* issued, and no file that was there before is overwritten.
C4_UniqueNoOverwrite ==
    /\ \A i, j \in 1..Len(issued) : i # j => issued[i] # issued[j]
    /\ \A k1, k2 \in DOMAIN mapping :
          k1 # k2 => Basename(mapping[k1]) # Basename(mapping[k2])
    /\ pc = "os_rename" =>
          ~Exists(PathJoin(Dirname(abs_old), new_name))
    /\ overwritten = {}

\* two names issued in the same millisecond, in a tree that already held a
\* file with a canonical name of that millisecond
C4_Witness ==
    /\ pc = "os_rename"
    /\ Len(issued) = 2
    /\ SubSeq(issued[1], 1, 17) = SubSeq(issued[2], 1, 17)
    /\ F.a_canon \in disk
    /\ SubSeq(Basename(F.a_canon), 1, 17) = SubSeq(issued[1], 1, 17)

\* the category tags the engine recognises, and "all"
RecognisedTokens == DOMAIN RENAMING_CATEGORIES \cup {T_all}

HasUnrecognisedToken ==
    \E i \in 1..Len(categories) : categories[i] \notin RecognisedTokens

\* C5 as stated. Fail-fast on invalid categories: a category list holding a
\* token that is neither a recognised tag nor "all" ends the run with an
\* error before any file is renamed, written or deleted; the run never goes
\* on with a default or reduced set.
C5_InvalidTokenFailsFast ==
    HasUnrecognisedToken =>
        /\ pc \in {"start", "failed"}
        /\ outcome.kind # "summary"
        /\ disk = disk0
        /\ content = content0
        /\ data_files = {}

\* the run the list ["other"] makes: it renames the image files and returns
\* a summary for the default set
C5_Witness ==
    /\ HasUnrecognisedToken
    /\ pc = "done"
    /\ outcome.kind = "summary"
    /\ outcome.rename_category_keys = <<DEFAULT_RENAME_CATEGORY>>
    /\ outcome.renamed_files >= 1
    /\ disk # disk0

\* the files of the tree the run started on, as an index
PreRenameIndex == IndexOf(disk0)

\* C6 as stated. The duplicate groups of the summary are computed from an
\* index built before any rename of the run: two files that share a basename
\* in different folders make one group of size 2, also when the run renames
\* both.
C6_DuplicatesOfPreRenameTree ==
    outcome.kind = "summary" =>
        /\ outcome.duplicates = detect_duplicate_filenames(PreRenameIndex)
        /\ \A f, g \in Range(PreRenameIndex.attachments) :
              (f # g /\ Basename(f) = Basename(g)) =>
                 /\ Basename(f) \in DOMAIN outcome.duplicates
                 /\ Len(outcome.duplicates[Basename(f)]) >= 2

\* a run that renamed two files sharing a basename and returned a summary
\* without their group
C6_Witness ==
    /\ outcome.kind = "summary"
    /\ {F.a_p, F.b_p} \subseteq disk0
    /\ {F.a_p, F.b_p} \subseteq DOMAIN mapping
    /\ Basename(F.a_p) \notin DOMAIN outcome.duplicates

\* the candidates whose os.rename has been attempted
Attempted ==
    IF pc \in {"start", "index_before", "walk"} \/ attachments = <<>> THEN {}
    ELSE IF pc \in {"rename", "os_rename"}
         THEN {attachments[k] : k \in 1..(ai - 1)}
         ELSE Range(attachments)

HasDetail(f) ==
    \E i \in 1..Len(details) :
        details[i].old = Basename(f) /\ details[i].path = Dirname(f)

\* C8. Rename failure is local: a candidate whose os.rename failed has no
\* mapping entry and no detail record, the loop goes on to the candidates
\* after it (once the loop is left every candidate has been attempted, and
\* each one either failed or is in the mapping), and the failure does not
\* end the run.
C8_RenameFailureLocal ==
    /\ \A f \in rename_failed : f \notin DOMAIN mapping /\ ~HasDetail(f)
    /\ pc \notin {"start", "index_before", "walk", "failed"} =>
          /\ DOMAIN mapping \cup rename_failed = Attempted
          /\ renamed + Cardinality(rename_failed) = Cardinality(Attempted)
    /\ pc \notin {"start", "index_before", "walk", "rename", "os_rename",
                  "failed", "duplicates"} =>
          Attempted = Range(attachments)
    /\ (pc = "failed" /\ rename_failed # {}) => index_after # None

\* a run that reached its summary after the first candidate's rename failed
\* and the second candidate's rename succeeded
C8_Witness ==
    /\ pc = "done"
    /\ outcome.kind = "summary"
    /\ Len(attachments) = 2
    /\ rename_failed = {attachments[1]}
    /\ DOMAIN mapping = {attachments[2]}
    /\ outcome.renamed_files = 1

\* C9 as stated. Per-document I/O failure is local: a failed read or write
\* of one document skips that document and the pass goes on; neither ends
\* the run, so once the rewrite pass has started the run does not fail.
C9_DocumentFailureLocal ==
    index_after # None => pc # "failed"

\* the run ended by the write of a document, with a document still to come
C9_Witness ==
    /\ pc = "failed"
    /\ outcome = [kind |-> "error", error |-> "OSError"]
    /\ index_after # None
    /\ mi < Len(index_after.markdown)
    /\ content = content0

\* the failed resolutions among the transform_path calls of the documents
\* that were read, as (document, reference) entries in call order
BrokenCalls == SelectSeq(calls, LAMBDA c : ~c.out.resolved)

BrokenEntries ==
    [k \in 1..Len(BrokenCalls) |->
        [file |-> BrokenCalls[k].file, link |-> BrokenCalls[k].link]]

\* C10. Unresolved references are never dropped: the summary's
\* invalid_references holds one (document, reference) entry for every
\* reference of a read document that transform_path returned unresolved,
\* and holds nothing else.
C10_UnresolvedRecorded ==
    /\ invalid_references = BrokenEntries
    /\ outcome.kind = "summary" =>
          /\ outcome.invalid_references = BrokenEntries
          /\ outcome.invalid_reference_count = Len(BrokenEntries)

\* a summary after a pass in which one document was rewritten and another,
\* left as it was, had an unresolved reference
C10_Witness ==
    /\ outcome.kind = "summary"
    /\ Len(outcome.invalid_references) = 1
    /\ Len(changed_files) = 1
    /\ outcome.invalid_references[1].file \notin Range(changed_files)
    /\ \E i \in 1..Len(calls) : calls[i].out.resolved

\* C13. Temporary artefacts are removed: whenever run_pipeline has returned
\* a summary, neither the rename-mapping file nor the file-index file that
\* the run wrote exists in the root or the data directory.
C13_ArtefactsRemoved ==
    outcome.kind = "summary" =>
        /\ ~ArtefactExists(MAPPING_FILENAME)
        /\ ~ArtefactExists(INDEX_FILENAME)

\* a run that started without either file, renamed a file, rewrote a
\* document and returned its summary while the mapping file it wrote is
\* still there
C13_Witness ==
    /\ outcome.kind = "summary"
    /\ MAPPING_FILENAME \notin disk0
    /\ ArtefactExists(MAPPING_FILENAME)
    /\ ~ArtefactExists(INDEX_FILENAME)
    /\ outcome.renamed_files = 1
    /\ outcome.markdown_fixed = 1

\* the documents the rewrite pass has read and scanned so far
ScannedDocs ==
    IF index_after = None THEN {}
    ELSE {index_after.markdown[k] : k \in 1..(mi - 1)} \ read_failed

CallsOn(doc) == SelectSeq(calls, LAMBDA c : c.file = doc)

\* replace_in_markdown counted no replacement in the document
NothingReplaced(doc) ==
    \A i \in 1..Len(CallsOn(doc)) : CallsOn(doc)[i].out.url = CallsOn(doc)[i].link

BrokenOn(doc) ==
    LET failed == SelectSeq(CallsOn(doc), LAMBDA c : ~c.out.resolved)
    IN  [k \in 1..Len(failed) |-> [file |-> doc, link |-> failed[k].link]]

\* C14. No-op write avoidance: a scanned document in which no reference
\* string changed is not written back (its text on disk is the text the run
\* started on, and no write of it was attempted) and is not listed among
\* the modified documents, while every unresolved reference found in it is
\* in the broken-reference list.
C14_NoOpNotWritten ==
    \A doc \in ScannedDocs :
        NothingReplaced(doc) =>
            /\ doc \notin Range(changed_files)
            /\ content[doc] = content0[doc]
            /\ SelectSeq(invalid_references, LAMBDA e : e.file = doc)
                  = BrokenOn(doc)

\* a finished run that left one document untouched while recording its
\* unresolved reference, and rewrote the other document
C14_Witness ==
    /\ pc = "done"
    /\ Len(changed_files) = 1
    /\ \E doc \in ScannedDocs :
          /\ NothingReplaced(doc)
          /\ Len(BrokenOn(doc)) = 1
          /\ doc \notin Range(changed_files)

\* the paths an index holds, none while it is not built
IndexPaths(index) ==
    IF index = None THEN {}
    ELSE Range(index.markdown) \cup Range(index.attachments)

Artefacts == {MAPPING_FILENAME, INDEX_FILENAME}

\* the run has not yet built the index used for resolution
BeforeIndex ==
    \/ pc \in {"start", "index_before", "walk", "rename", "os_rename",
               "save_mapping", "index_after"}
    \/ pc = "duplicates" /\ variant = "package"

\* C16. Phase ordering within one run: while a rename is still to come the
\* index used for resolution does not exist and no document has been read
\* or rewritten; once that index exists every rename candidate has been
\* handled, the index holds the tree with every rename applied (each new
\* name, no old name), and the tree is the one that was indexed: no rename
\* happens after the index is built.
C16_PhaseOrder ==
    /\ BeforeIndex =>
          /\ index_after = None
          /\ calls = <<>>
          /\ read_failed = {}
          /\ content = content0
          /\ changed_files = <<>>
    /\ index_after # None =>
          /\ ai = Len(attachments) + 1
          /\ new_name = None
          /\ \A k \in DOMAIN mapping :
                mapping[k] \in IndexPaths(index_after) /\ k \notin IndexPaths(index_after)
          /\ IndexPaths(index_after) \ Artefacts = Range(WalkFrom(disk, <<>>)) \ Artefacts

\* the single-file program has renamed two files, indexed the tree and
\* rewritten a document
C16_Witness ==
    /\ pc = "done"
    /\ variant = "script"
    /\ renamed = 2
    /\ total_replacements >= 1
    /\ Len(index_after.attachments) >= 2

\* ------------------------------------------------------------------------
\* Properties of runs over trees with excluded directories
\* ------------------------------------------------------------------------

\* the conditions under which a file of the tree may be renamed
Eligible(f) ==
    LET filename == Basename(f)
        selected == resolve_allowed_extensions(categories)
    IN  /\ AbsOf(f) # SelfExec
        /\ ~EndsWith(Lower(filename), <<".","e","x","e">>)
        /\ Lower(SplitExt(filename)[2]) \notin MARKDOWN_EXTS
        /\ ~(Len(SplitExt(filename)[1]) = 19 /\ IsDigitStr(SplitExt(filename)[1]))
        /\ \/ selected.allow_all
           \/ Lower(SplitExt(filename)[2]) \in selected.allowed

\* the files renamed so far and the names they now carry
RenamedFiles == DOMAIN mapping

NewNames == {mapping[k] : k \in DOMAIN mapping}

\* C17. Rename eligibility: a file is renamed by a run only if it is not
\* the running executable, does not end in .exe, is not a Markdown
\* document, does not already have a canonical name and, unless "all" is
\* selected, has a lowercased extension of the selected categories; every
\* other file of the tree keeps its name.
C17_RenameEligibility ==
    /\ \A f \in RenamedFiles : f \in disk0 /\ Eligible(f)
    /\ disk \ Artefacts = (disk0 \ RenamedFiles) \cup NewNames

\* a finished run with "all" selected that renamed the one eligible file
\* and left the running executable and an .exe file under their names
C17_Witness ==
    /\ pc = "done"
    /\ categories = <<T_all>>
    /\ disk0 = {F.tool, F.a_exe, F.a_pdf}
    /\ RenamedFiles = {F.a_pdf}
    /\ {F.tool, F.a_exe} \subseteq disk

\* a directory name the walks do not descend into
ExcludedDirName(d) ==
    \/ Head(d) = "."
    \/ d \in EXCLUDE_DIR_NAMES
    \/ Len(d) >= 4 /\ SubSeq(d, Len(d) - 3, Len(d)) = <<".","a","p","p">>

\* the file lies below an excluded directory of the tree
BelowExcluded(f) ==
    LET comps == SplitSlash(f)
    IN  \E i \in 1..(Len(comps) - 1) : ExcludedDirName(comps[i])

\* C18. Directory exclusions: a file below a directory of the tree whose
\* name starts with '.', is an excluded build/cache name or ends in .app
\* is never indexed, never a rename candidate or renamed, and never read or
\* rewritten as a document; every other file, also one whose own name
\* starts with '.', is in each index built while it is in the tree.
C18_DirectoryExclusions ==
    /\ \A f \in disk0 :
          BelowExcluded(f) =>
             /\ f \notin IndexPaths(index_before) \cup IndexPaths(index_after)
             /\ f \notin Range(attachments)
             /\ f \notin RenamedFiles
             /\ f \in disk
             /\ f \notin Range(changed_files) \cup read_failed
             /\ \A i \in 1..Len(calls) : calls[i].file # f
             /\ IsDoc(f) => content[f] = content0[f]
    /\ index_before # None =>
          \A f \in disk0 : ~BelowExcluded(f) => f \in IndexPaths(index_before)
    /\ index_after # None =>
          \A f \in disk \ Artefacts :
              ~BelowExcluded(f) => f \in IndexPaths(index_after)

\* a finished run over a tree with a file and a document below .git and a
\* dot-file in a kept directory: the dot-file was indexed and renamed
C18_Witness ==
    /\ pc = "done"
    /\ variant = "package"
    /\ disk0 = {F.git_p, F.git_n, F.a_dot}
    /\ F.a_dot \in IndexPaths(index_before)
    /\ F.a_dot \in RenamedFiles
    /\ calls = <<>>

\* ------------------------------------------------------------------------
\* Properties of runs over trees with three documents
\* ------------------------------------------------------------------------

\* C21. A document whose read fails is skipped entirely: its text on disk
\* is unchanged, it has no entry in the modified-document list, adds
\* nothing to the substitution total (no reference of it was resolved at
\* all) and has no entry in invalid_references, and once the run has ended
\* every document after it in the index has been processed (read, or its
\* read failed too).
C21_ReadFailureSkipped ==
    \A doc \in read_failed :
        /\ content[doc] = content0[doc]
        /\ doc \notin Range(changed_files)
        /\ CallsOn(doc) = <<>>
        /\ \A i \in 1..Len(invalid_references) : invalid_references[i].file # doc
        /\ total_replacements =
              Cardinality({i \in 1..Len(calls) : calls[i].out.url # calls[i].link})
        /\ pc \in {"done", "failed"} =>
              \A k \in 1..Len(index_after.markdown) :
                  \/ index_after.markdown[k] \in read_failed
                  \/ CallsOn(index_after.markdown[k]) # <<>>

\* a run in which the read of the first document failed, the write of the
\* second raised, and the third document was never read
C21_Witness ==
    /\ pc = "failed"
    /\ Len(index_after.markdown) = 3
    /\ read_failed = {index_after.markdown[1]}
    /\ CallsOn(index_after.markdown[2]) # <<>>
    /\ CallsOn(index_after.markdown[3]) = <<>>

\* C25. A valid link is never retargeted: when a relative reference, read
\* from its document's directory, names a file of the tree that exists and
\* was not renamed in this run, the reference transform_path returned for
\* it names that same file.
C25_ValidLinkKept ==
    \A i \in 1..Len(calls) :
        LET url == Strip(calls[i].link)
            target == ResolvesTo(url, calls[i].file)
        IN  ( /\ url # <<>>
              /\ ~is_external_or_absolute(url)
              /\ target \in disk0 \cap disk
              /\ target \notin RenamedFiles )
            => ResolvesTo(calls[i].out.url, calls[i].file) = target

\* a/n.md references ../.git/p.png, which exists; a/p.png kept its name
\* and is the only p.png of the index: the reference comes back as p.png
C25_Witness ==
    /\ pc = "done"
    /\ disk0 = {F.a_n, F.a_p, F.git_p}
    /\ F.a_p \in disk
    /\ Len(calls) = 2
    /\ calls[2].link = <<".",".","/",".","g","i","t","/","p">> \o PNG
    /\ calls[2].out = [url |-> <<"p">> \o PNG, resolved |-> TRUE]

\* C26. Summary counters agree with the detail lists: in every summary
\* returned, renamed_files is the number of rename_details records and of
\* mapping entries and at most rename_candidates; markdown_fixed is the
\* length of fixed_files; replacements is at least markdown_fixed; and
\* invalid_reference_count is the length of invalid_references.
C26_CountersAgree ==
    outcome.kind = "summary" =>
        /\ outcome.renamed_files = Len(outcome.rename_details)
        /\ outcome.renamed_files = Cardinality(DOMAIN mapping)
        /\ outcome.renamed_files <= outcome.rename_candidates
        /\ outcome.markdown_fixed = Len(outcome.fixed_files)
        /\ outcome.replacements >= outcome.markdown_fixed
        /\ outcome.invalid_reference_count = Len(outcome.invalid_references)

\* a summary of a run with two candidates of which one rename failed, one
\* document rewritten and one reference reported broken
C26_Witness ==
    /\ outcome.kind = "summary"
    /\ outcome.rename_candidates = 2
    /\ outcome.renamed_files = 1
    /\ rename_failed # {}
    /\ outcome.markdown_fixed + outcome.invalid_reference_count >= 1

\* what a second run with the same categories would find as rename
\* candidates in the tree as it is now
SecondRunCandidates ==
    LET selected == resolve_allowed_extensions(categories)
    IN  walk_attachments(RootDir, SelfExec, selected.allowed, selected.allow_all)

\* C28. Renaming is idempotent across runs: once a run in which every
\* rename succeeded has ended, a second run over the tree it left, with
\* the same categories, detects zero rename candidates (and so renames
\* nothing and builds an empty mapping): every name in the tree that the
\* first run could rename now is a canonical name.
C28_SecondRunFindsNothing ==
    ( /\ pc \in {"done", "failed"}
      /\ ~resolve_allowed_extensions(categories).raises
      /\ rename_failed = {} )
    => SecondRunCandidates = <<>>

\* a finished run with "all" selected that renamed a file and could not
\* delete its mapping file, which a second run would take as a candidate
C28_Witness ==
    /\ pc = "done"
    /\ categories = <<T_all>>
    /\ rename_failed = {}
    /\ renamed >= 1
    /\ SecondRunCandidates = <<MAPPING_FILENAME>>

\* C29. Name generation terminates: with a clock that keeps advancing,
\* every call of generate_unique_filename eventually returns a name,
\* whatever names were issued before and whatever the target directory
\* holds, and so rename_attachments gets through every candidate and
\* finishes with each candidate either renamed or failed.
C29_GenerationTerminates ==
    /\ (pc = "rename") ~> (pc = "os_rename")
    /\ (pc = "rename") ~> (pc = "save_mapping")
    /\ [](pc = "save_mapping" =>
            /\ ai = Len(attachments) + 1
            /\ DOMAIN mapping \cup rename_failed = Range(attachments))

\* a call that could return no name of tick 0, both being files of the
\* candidate's directory, and returned one of tick 1; and a later call that
\* returned while a name was already issued
C29_Witness ==
    /\ pc = "os_rename"
    /\ ai = 2
    /\ {F.a_canon, <<"a","/">> \o candidate_name(0, 1, PNG)} \subseteq disk0
    /\ attachments = <<F.a_p, F.b_p>>
    /\ issued[1] \in {candidate_name(1, 0, PNG), candidate_name(1, 1, PNG)}
    /\ Len(issued) = 2

\* ------------------------------------------------------------------------
\* The two graphical hosts of run_pipeline
\* ------------------------------------------------------------------------
\* bound: the worker threads one session starts
MaxRuns == 3

\* the worker threads inside run_pipeline
InPipeline == {i \in DOMAIN threads : threads[i] = "run_pipeline"}

InitGui ==
    /\ frontend \in {"tkinter", "qt"}
    /\ HostIdle
    /\ pc = "idle"
    /\ disk = {}
    /\ mapping = <<>>
    /\ index_after = None
    /\ h_url = None
    /\ h_md = None
    /\ h_out = None
    /\ RunIdle

\* variant: the handler does not look at the running flag
run_project_unguarded ==
    /\ frontend = "tkinter"
    /\ dialog = "none"
    /\ Len(threads) < MaxRuns
    /\ \E ready \in BOOLEAN :
          IF ~ready THEN UNCHANGED <<dialog, ignored>>
          ELSE dialog' = "askyesno" /\ UNCHANGED ignored
    /\ UNCHANGED <<frontend, running, add_btn, run_btn, threads, events,
                   pc, disk, mapping, index_after, run_vars, call_vars>>

\* tkinter, run_project up to the confirmation box: a click on a run
\* button; `ready` says that the index is in range and that the project
\* root and the data directory are set
run_project ==
    /\ frontend = "tkinter"
    /\ dialog = "none"
    /\ Len(threads) < MaxRuns
    /\ \E ready \in BOOLEAN :
          IF running
          THEN /\ ignored' = IF ignored < MaxRuns THEN ignored + 1 ELSE ignored
               /\ UNCHANGED dialog
          ELSE IF ~ready THEN UNCHANGED <<dialog, ignored>>
          ELSE dialog' = "askyesno" /\ UNCHANGED ignored
    /\ UNCHANGED <<frontend, running, add_btn, run_btn, threads, events,
                   pc, disk, mapping, index_after, run_vars, call_vars>>

\* tkinter, run_project from the answer of the confirmation box on: the
\* flag is set, os.makedirs creates the data directory or raises, and the
\* worker thread is started
run_project_confirmed ==
    /\ frontend = "tkinter"
    /\ dialog = "askyesno"
    /\ dialog' = "none"
    /\ \E yes \in BOOLEAN, makedirs_raises \in BOOLEAN :
          IF ~yes THEN UNCHANGED <<running, threads>>
          ELSE /\ running' = TRUE
               /\ threads' = IF makedirs_raises THEN threads
                             ELSE Append(threads, "run_pipeline")
    /\ UNCHANGED <<frontend, add_btn, run_btn, events, ignored,
                   pc, disk, mapping, index_after, run_vars, call_vars>>

\* tkinter, worker: run_pipeline returns a summary or raises, and the try
\* or the except block queues its callback for the main thread
worker ==
    /\ frontend = "tkinter"
    /\ \E i \in InPipeline, raised \in BOOLEAN :
          /\ threads' = [threads EXCEPT ![i] = "finally"]
          /\ events' = Append(events, IF raised THEN "failed" ELSE "finished")
    /\ UNCHANGED <<frontend, running, add_btn, run_btn, dialog, ignored,
                   pc, disk, mapping, index_after, run_vars, call_vars>>

\* tkinter, worker: the finally block
worker_finally ==
    /\ frontend = "tkinter"
    /\ \E i \in DOMAIN threads :
          /\ threads[i] = "finally"
          /\ threads' = [threads EXCEPT ![i] = "ended"]
    /\ running' = FALSE
    /\ UNCHANGED <<frontend, add_btn, run_btn, dialog, events, ignored,
                   pc, disk, mapping, index_after, run_vars, call_vars>>

\* tkinter, the main loop runs a callback queued with app.after: the status
\* line and the message box
after_callback ==
    /\ frontend = "tkinter"
    /\ dialog = "none"
    /\ events # <<>>
    /\ events' = Tail(events)
    /\ UNCHANGED <<frontend, running, add_btn, run_btn, dialog, threads, ignored,
                   pc, disk, mapping, index_after, run_vars, call_vars>>

\* Qt, a click on the run button of a card: a disabled button emits
\* nothing; MainWindow.run_project with _set_ui_running(True) and
\* _start_pipeline; `ready` says that the index is in range and that the
\* project has a root
MainWindow_run_project ==
    /\ frontend = "qt"
    /\ Len(threads) < MaxRuns
    /\ \E ready \in BOOLEAN :
          IF ~run_btn
          THEN /\ ignored' = IF ignored < MaxRuns THEN ignored + 1 ELSE ignored
               /\ UNCHANGED <<add_btn, run_btn, threads>>
          ELSE IF ~ready THEN UNCHANGED <<add_btn, run_btn, threads, ignored>>
          ELSE /\ add_btn' = FALSE
               /\ run_btn' = FALSE
               /\ threads' = Append(threads, "run_pipeline")
               /\ UNCHANGED ignored
    /\ UNCHANGED <<frontend, running, dialog, events,
                   pc, disk, mapping, index_after, run_vars, call_vars>>

\* Qt, refresh_project_list, reached from add_project, show_project_details
\* and remove_project_by_index, each behind a button: the cards are built
\* anew, their buttons enabled
refresh_project_list ==
    /\ frontend = "qt"
    /\ add_btn \/ run_btn
    /\ run_btn' = TRUE
    /\ UNCHANGED <<frontend, running, add_btn, dialog, threads, events, ignored,
                   pc, disk, mapping, index_after, run_vars, call_vars>>

\* Qt, PipelineWorker.run: run_pipeline returns a summary or raises, and the
\* signal finished or failed is emitted to the main thread
PipelineWorker_run ==
    /\ frontend = "qt"
    /\ \E i \in InPipeline, raised \in BOOLEAN :
          /\ threads' = [threads EXCEPT ![i] = "ended"]
          /\ events' = Append(events, IF raised THEN "failed" ELSE "finished")
    /\ UNCHANGED <<frontend, running, add_btn, run_btn, dialog, ignored,
                   pc, disk, mapping, index_after, run_vars, call_vars>>

\* Qt, the slot of the signal finished: _set_ui_running(False) enables
\* the buttons again
on_run_finished ==
    /\ frontend = "qt"
    /\ events # <<>>
    /\ Head(events) = "finished"
    /\ events' = Tail(events)
    /\ add_btn' = TRUE
    /\ run_btn' = TRUE
    /\ UNCHANGED <<frontend, running, dialog, threads, ignored,
                   pc, disk, mapping, index_after, run_vars, call_vars>>

\* Qt, the slot of the signal failed: _set_ui_running(False) as well
on_run_failed ==
    /\ frontend = "qt"
    /\ events # <<>>
    /\ Head(events) = "failed"
    /\ events' = Tail(events)
    /\ add_btn' = TRUE
    /\ run_btn' = TRUE
    /\ UNCHANGED <<frontend, running, dialog, threads, ignored,
                   pc, disk, mapping, index_after, run_vars, call_vars>>

GuiNext ==
    \/ run_project
    \/ run_project_confirmed
    \/ worker
    \/ worker_finally
    \/ after_callback
    \/ MainWindow_run_project
    \/ refresh_project_list
    \/ PipelineWorker_run
    \/ on_run_finished
    \/ on_run_failed

\* the user may stop clicking; a started thread is scheduled and
\* run_pipeline ends by returning or raising; the main loop takes what is
\* queued for it
SpecGui ==
    /\ InitGui
    /\ [][GuiNext]_vars
    /\ WF_vars(worker)
    /\ WF_vars(worker_finally)
    /\ WF_vars(after_callback)
    /\ WF_vars(PipelineWorker_run)
    /\ WF_vars(on_run_finished \/ on_run_failed)

\* C24. Runs are serialized by both graphical hosts: whatever the user
\* clicks and whenever workers end, at most one worker thread is inside
\* run_pipeline, and while one is the host is in its running state, in
\* which a run request starts nothing.
C24_RunsSerialized ==
    /\ Cardinality(InPipeline) <= 1
    /\ InPipeline # {} =>
          IF frontend = "tkinter" THEN running ELSE ~run_btn /\ ~add_btn

\* a second run of a tkinter session is inside run_pipeline, the first
\* has ended, and a run click made during a run has started nothing
C24_Witness ==
    /\ frontend = "tkinter"
    /\ Len(threads) = 2
    /\ threads[1] = "ended"
    /\ threads[2] = "run_pipeline"
    /\ ignored >= 1

\* C30. The hosts always leave the running state: once the tkinter flag is
\* true, or the Qt controls are disabled, for a run request, the flag
\* becomes false, or the controls enabled, again, whether run_pipeline
\* returns or raises.
C30_RunningStateLeft ==
    /\ (frontend = "tkinter" /\ running) ~> ~running
    /\ (frontend = "qt" /\ ~run_btn) ~> run_btn

\* the tkinter flag is true with no worker thread alive and nothing left
\* to run: os.makedirs raised after the flag was set
C30_Witness ==
    /\ frontend = "tkinter"
    /\ running
    /\ dialog = "none"
    /\ threads = <<>>
    /\ events = <<>>
    /\ ignored >= 1

====
